---- MODULE Spec2Model ----
(***************************************************************************)
(* The draft lifecycle and the send worker of the sponsorship-outreach     *)
(* application: the relational store (contact, draft, sendattempt rows),   *)
(* the review handlers of the Streamlit page (Save, Approve, Unapprove),   *)
(* the research run that replaces a company's contacts and creates its     *)
(* draft, and run_worker's polling loop (Spec); the same with one or two    *)
(* worker processes (PoolSpec), with the worker's assignments and its      *)
(* commit as separate steps (StepSpec), and in loop mode under fairness    *)
(* (LiveSpec); and the functions of the contact finder, the ranker and the *)
(* writer, each called with arguments drawn from bounded sets (FnSpec).    *)
(***************************************************************************)
EXTENDS Integers, Sequences, FiniteSets, TLC

(* ------------------------------ bounds --------------------------------- *)

\* Number of imported companies of the campaign.
NCompanies == 2

\* Largest number of draft rows the store holds (drafts are never deleted).
MaxDrafts == 2

\* Largest primary key a contact row may get.
MaxContactId == 2

\* The clock stops handing out timestamps after this value.
MaxTime == 7

\* Largest number of pages the contact finder is given.
MaxPages == 3

\* Largest max_n pick_top_contacts is called with.
MaxPick == 4

\* Largest length of a completion of the text-generation capability.
MaxOut == 5

(* ------------------------- program constants --------------------------- *)

\* DraftStatus
DRAFT == "draft"
APPROVED == "approved"
SENT == "sent"
FAILED == "failed"

DraftStatus == {DRAFT, APPROVED, SENT, FAILED}

\* time.sleep(5) of an iteration that found no approved draft
POLL_SECONDS == 5

\* the 30 of time.sleep(min(30, settings.RATE_LIMIT_SECONDS))
BACKOFF_CAP_SECONDS == 30

\* default of Settings.RATE_LIMIT_SECONDS
DEFAULT_RATE_LIMIT_SECONDS == 60

\* max_n of pick_top_contacts(found_emails, max_n=3)
MAX_N == 3

NO_RECIPIENT == "No recipient email selected"
SMTP_ERROR == "smtp error"

\* Values the RATE_LIMIT_SECONDS environment variable is given.
RateChoices == {10, DEFAULT_RATE_LIMIT_SECONDS}

Companies == 1..NCompanies

\* The subject and body write_email_with_llm returned for a new draft.
GENERATED_SUBJECT == "generated subject"
GENERATED_BODY == "generated body"

\* What a reviewer types into the Subject and Body inputs before Save.
EditedSubjects == {"edited subject"}
EditedBodies == {"edited body"}

\* Worker processes that can be started against the store.
WorkerIds == {"w1", "w2"}

\* NULL of a nullable column / None of a local.
NULL == 0

\* The local `draft` of a worker that holds no row.
NO_DRAFT == [id |-> NULL]

VARIABLES
    contact,      \* table contact: id -> [company_id, email]
    draft,        \* table draft: id -> [company_id, contact_id, subject, body_text, status, updated_at]
    sendattempt,  \* table sendattempt in insertion order
    now,          \* the next value of datetime.utcnow()
    rate,         \* settings.RATE_LIMIT_SECONDS
    once,         \* run_worker's once argument (--once)
    running,      \* the worker processes that were started
    wpc,          \* each worker's position in run_worker
    wdraft,       \* each worker's local `draft` (the row as it read it), or NO_DRAFT
    wsleep,       \* seconds of the time.sleep a worker is in
    smtp,         \* the messages handed to send_smtp, in order, with the outcome
    elapsed,      \* seconds slept since the last send_smtp call (capped; 0 before the first)
    sinceApprove, \* per draft: send attempts recorded since its last Approve
    stdout,       \* the lines the worker printed, in order
    research,     \* comp.id and `top` of the last company a research run processed
    approvals,    \* the drafts the reviewer clicked Approve on
    call          \* the last call of a function of the finder, ranker or writer, with its result

vars == <<contact, draft, sendattempt, now, rate, once, running, wpc, wdraft,
          wsleep, smtp, elapsed, sinceApprove, stdout, research, approvals, call>>

(* ------------------------------ helpers -------------------------------- *)

Min(a, b) == IF a <= b THEN a ELSE b

SetMax(S) == CHOOSE x \in S : \A y \in S : y <= x

\* The clock has a timestamp left to hand out.
ClockRuns == now < MaxTime

\* Intervals are compared with the rate limit at most: longer ones count as it.
MaxElapsed == rate

\* INTEGER PRIMARY KEY of a new row: one more than the largest key in the table.
NextId(table) == IF DOMAIN table = {} THEN 1 ELSE SetMax(DOMAIN table) + 1

\* select(Contact).where(Contact.company_id == comp.id)
ContactsOf(c) == {k \in DOMAIN contact : contact[k].company_id = c}

\* select(Draft).where(Draft.status == APPROVED)
ApprovedDrafts == {d \in DOMAIN draft : draft[d].status = APPROVED}


\* to_email when there is none: None or "", which `not to_email` treats alike
NO_EMAIL == ""

\* contact = s.get(Contact, draft.contact_id) if draft.contact_id else None
\* to_email = contact.email if contact else None
GetContactEmail(id) == IF id # NULL /\ id \in DOMAIN contact THEN contact[id].email ELSE NO_EMAIL

\* The ranked candidates the contact finder returns for a company's pages.
Ranked == <<"csr@acme.org", "info@acme.org">>

\* The candidate lists pick_top_contacts can hand to the research run: the
\* first n of the ranked candidates, n at most MAX_N (none when no page was
\* fetched or every candidate was skipped).
TopChoices == {SubSeq(Ranked, 1, n) : n \in 0..Min(MAX_N, Len(Ranked))}

(* ------------------------------- Init ---------------------------------- *)

\* The store after the campaign and its companies were set up, before any
\* research run; one worker process started, in either mode.
InitStore ==
    /\ contact = <<>>
    /\ draft = <<>>
    /\ sendattempt = <<>>
    /\ now = 1
    /\ smtp = <<>>
    /\ elapsed = 0
    /\ sinceApprove = <<>>
    /\ stdout = <<>>
    /\ research = [company_id |-> NULL, top |-> <<>>]
    /\ approvals = {}
    /\ call = [fn |-> "none", returned |-> FALSE]

InitWorkers(started) ==
    /\ running = started
    /\ wpc = [w \in WorkerIds |-> IF w \in started THEN "poll" ELSE "off"]
    /\ wdraft = [w \in WorkerIds |-> NO_DRAFT]
    /\ wsleep = [w \in WorkerIds |-> 0]

Init ==
    /\ InitStore
    /\ InitWorkers({"w1"})
    /\ once \in BOOLEAN
    /\ rate \in RateChoices

(* --------------------------- research run ------------------------------ *)

\* Mutant: the delete leaves the drafts' contact_id as it was.
DraftsKeepDeletedContact(c) == draft

\* s.delete(ec) for every contact of the company. Contact.drafts is a
\* one-to-many relationship without delete cascade, so the unit of work
\* sets contact_id of the drafts that reference a deleted contact to NULL.
DraftsAfterContactDelete(c) ==
    [d \in DOMAIN draft |->
        IF draft[d].contact_id \in ContactsOf(c)
        THEN [draft[d] EXCEPT !.contact_id = NULL]
        ELSE draft[d]]

\* Mutant: the rows of the company are kept and the picked candidates added.
ContactsAfterMerge(c, top) ==
    LET base == IF DOMAIN contact = {} THEN 0 ELSE SetMax(DOMAIN contact)
        fresh == {base + i : i \in 1..Len(top)}
    IN [k \in DOMAIN contact \cup fresh |->
           IF k \in DOMAIN contact THEN contact[k]
           ELSE [company_id |-> c, email |-> top[k - base]]]

\* The contact table after the company's rows were deleted and one row per
\* picked candidate was inserted, each with the next free primary key.
ContactsAfterReplace(c, top) ==
    LET kept == DOMAIN contact \ ContactsOf(c)
        base == IF kept = {} THEN 0 ELSE SetMax(kept)
        fresh == {base + i : i \in 1..Len(top)}
    IN [k \in kept \cup fresh |->
           IF k \in kept THEN contact[k]
           ELSE [company_id |-> c, email |-> top[k - base]]]

\* contact_ids[0] if contact_ids else None
FirstNewContact(c, top) ==
    LET kept == DOMAIN contact \ ContactsOf(c)
        base == IF kept = {} THEN 0 ELSE SetMax(kept)
    IN IF Len(top) = 0 THEN NULL ELSE base + 1

\* Mutant: the research run creates its drafts APPROVED.
NewDraftApproved(c, cid) ==
    [company_id |-> c, contact_id |-> cid, subject |-> GENERATED_SUBJECT,
     body_text |-> GENERATED_BODY, status |-> APPROVED, updated_at |-> now]

\* Draft(company_id, contact_id, subject, body_text, status=DRAFT)
NewDraft(c, cid) ==
    [company_id |-> c, contact_id |-> cid, subject |-> GENERATED_SUBJECT,
     body_text |-> GENERATED_BODY, status |-> DRAFT, updated_at |-> now]

\* One company of "Run research + generate drafts".
Research(c, top) ==
    /\ ClockRuns
    /\ Cardinality(DOMAIN draft) < MaxDrafts
    /\ \A k \in DOMAIN ContactsAfterReplace(c, top) : k <= MaxContactId
    /\ contact' = ContactsAfterReplace(c, top)
    /\ draft' = LET nullified == DraftsAfterContactDelete(c)
                    id == NextId(draft)
                IN [d \in DOMAIN draft \cup {id} |->
                       IF d = id THEN NewDraft(c, FirstNewContact(c, top))
                       ELSE nullified[d]]
    /\ sinceApprove' = [d \in DOMAIN draft \cup {NextId(draft)} |->
                           IF d \in DOMAIN draft THEN sinceApprove[d] ELSE 0]
    /\ research' = [company_id |-> c, top |-> top]
    /\ now' = now + 1
    /\ UNCHANGED <<sendattempt, rate, once, running, wpc, wdraft, wsleep, smtp, elapsed,
                   stdout, approvals, call>>

(* --------------------------- review handlers --------------------------- *)

\* The recipients the select box offers for a draft: "(none)" and the
\* contacts of the draft's company.
RecipientOptions(d) == {NULL} \cup ContactsOf(draft[d].company_id)

\* "Save": subject, body, contact and updated_at, in any status.
Save(d, new_subject, new_body, new_contact) ==
    /\ ClockRuns
    /\ d \in DOMAIN draft
    /\ new_contact \in RecipientOptions(d)
    /\ draft' = [draft EXCEPT ![d].subject = new_subject,
                              ![d].body_text = new_body,
                              ![d].contact_id = new_contact,
                              ![d].updated_at = now]
    /\ now' = now + 1
    /\ UNCHANGED <<contact, sendattempt, rate, once, running, wpc, wdraft, wsleep,
                   smtp, elapsed, sinceApprove,
                   stdout, research, approvals, call>>

\* disabled=(d.status == DraftStatus.SENT) of the Approve button. A click
\* reruns the page script, which reads the drafts again before it reaches the
\* button, so the condition is taken on the stored row.
ApproveEnabled(d) == draft[d].status # SENT

\* "Approve"
Approve(d) ==
    /\ ClockRuns
    /\ d \in DOMAIN draft
    /\ ApproveEnabled(d)
    /\ draft' = [draft EXCEPT ![d].status = APPROVED, ![d].updated_at = now]
    /\ sinceApprove' = [sinceApprove EXCEPT ![d] = 0]
    /\ approvals' = approvals \cup {d}
    /\ now' = now + 1
    /\ UNCHANGED <<contact, sendattempt, rate, once, running, wpc, wdraft, wsleep,
                   smtp, elapsed,
                   stdout, research, call>>

\* The Unapprove button has no disabled condition.
UnapproveEnabled(d) == TRUE

\* "Unapprove"
Unapprove(d) ==
    /\ ClockRuns
    /\ d \in DOMAIN draft
    /\ UnapproveEnabled(d)
    /\ draft' = [draft EXCEPT ![d].status = DRAFT, ![d].updated_at = now]
    /\ now' = now + 1
    /\ UNCHANGED <<contact, sendattempt, rate, once, running, wpc, wdraft, wsleep,
                   smtp, elapsed, sinceApprove,
                   stdout, research, approvals, call>>

(* ------------------------------ run_worker ----------------------------- *)

\* Mutant: the query orders by updated_at descending.
NewestApproved ==
    {d \in ApprovedDrafts : \A o \in ApprovedDrafts : draft[d].updated_at >= draft[o].updated_at}

\* Mutant: the query also returns FAILED drafts.
OldestApprovedOrFailed ==
    LET queue == {d \in DOMAIN draft : draft[d].status \in {APPROVED, FAILED}}
    IN {d \in queue : \A o \in queue : draft[d].updated_at <= draft[o].updated_at}

\* .order_by(Draft.updated_at.asc()).first(): the rows the query may return first
OldestApproved ==
    {d \in ApprovedDrafts : \A o \in ApprovedDrafts : draft[d].updated_at <= draft[o].updated_at}

\* The worker's session objects: the draft row as read, and to_email as
\* resolved from the contact row (NULL for None).
Claimed(d) ==
    [id |-> d,
     contact_id |-> draft[d].contact_id,
     subject |-> draft[d].subject,
     body_text |-> draft[d].body_text,
     to_email |-> GetContactEmail(draft[d].contact_id)]

\* Mutant: the select also writes the row it returns (it touches updated_at).
WorkerSelectAndTouch(w) ==
    /\ ClockRuns
    /\ wpc[w] = "poll"
    /\ \E d \in OldestApproved :
          /\ wdraft' = [wdraft EXCEPT ![w] = Claimed(d)]
          /\ draft' = [draft EXCEPT ![d].updated_at = now]
    /\ now' = now + 1
    /\ wpc' = [wpc EXCEPT ![w] = "claimed"]
    /\ UNCHANGED <<contact, sendattempt, rate, once, running, wsleep,
                   smtp, elapsed, sinceApprove, stdout, research, approvals, call>>

\* An iteration that finds an approved draft: the select, then the reads of
\* company, contact and campaign.
WorkerSelect(w) ==
    /\ wpc[w] = "poll"
    /\ \E d \in OldestApproved :
          wdraft' = [wdraft EXCEPT ![w] = Claimed(d)]
    /\ wpc' = [wpc EXCEPT ![w] = "claimed"]
    /\ UNCHANGED <<contact, draft, sendattempt, now, rate, once, running, wsleep,
                   smtp, elapsed, sinceApprove,
                   stdout, research, approvals, call>>

\* Mutant: the idle iteration sleeps before it looks at `once`.
WorkerReturnIdleSleeps(w) ==
    /\ wpc[w] = "poll"
    /\ ApprovedDrafts = {}
    /\ once
    /\ wpc' = [wpc EXCEPT ![w] = "sleeping"]
    /\ wsleep' = [wsleep EXCEPT ![w] = POLL_SECONDS]
    /\ UNCHANGED <<contact, draft, sendattempt, now, rate, once, running, wdraft,
                   smtp, elapsed, sinceApprove, stdout, research, approvals, call>>

\* An iteration that finds none, in --once mode: return.
WorkerReturnIdle(w) ==
    /\ wpc[w] = "poll"
    /\ ApprovedDrafts = {}
    /\ once
    /\ wpc' = [wpc EXCEPT ![w] = "done"]
    /\ UNCHANGED <<contact, draft, sendattempt, now, rate, once, running, wdraft,
                   wsleep, smtp, elapsed, sinceApprove,
                   stdout, research, approvals, call>>

\* An iteration that finds none, in loop mode: time.sleep(5); continue.
WorkerPollSleep(w) ==
    /\ wpc[w] = "poll"
    /\ ApprovedDrafts = {}
    /\ ~once
    /\ wpc' = [wpc EXCEPT ![w] = "sleeping"]
    /\ wsleep' = [wsleep EXCEPT ![w] = POLL_SECONDS]
    /\ UNCHANGED <<contact, draft, sendattempt, now, rate, once, running, wdraft,
                   smtp, elapsed, sinceApprove,
                   stdout, research, approvals, call>>

\* Mutant: every attempt is recorded as failed.
AttemptAlwaysFailed(d, status, error) ==
    [draft_id |-> d, status |-> FAILED, error |-> error, timestamp |-> now]

\* SendAttempt(draft_id, status, error)
Attempt(d, status, error) ==
    [draft_id |-> d, status |-> status, error |-> error, timestamp |-> now]

\* Mutant: the outcome is committed without a SendAttempt row.
CommitOutcomeNoAttempt(w, status, error) ==
    /\ draft' = [draft EXCEPT ![wdraft[w].id].status = status,
                              ![wdraft[w].id].updated_at = now]
    /\ sendattempt' = sendattempt
    /\ sinceApprove' = sinceApprove
    /\ now' = now + 1

\* Mutant: the UPDATE has no WHERE id: it writes every APPROVED row.
CommitOutcomeEveryApproved(w, status, error) ==
    /\ draft' = [d \in DOMAIN draft |->
                     IF d = wdraft[w].id \/ draft[d].status = APPROVED
                     THEN [draft[d] EXCEPT !.status = status, !.updated_at = now]
                     ELSE draft[d]]
    /\ sendattempt' = Append(sendattempt, Attempt(wdraft[w].id, status, error))
    /\ sinceApprove' = [sinceApprove EXCEPT ![wdraft[w].id] = @ + 1]
    /\ now' = now + 1

\* draft.status = status; draft.updated_at = utcnow(); s.add(SendAttempt(...)); s.commit()
\* The UPDATE writes the two changed columns of the claimed row only.
CommitOutcome(w, status, error) ==
    /\ draft' = [draft EXCEPT ![wdraft[w].id].status = status,
                              ![wdraft[w].id].updated_at = now]
    /\ sendattempt' = Append(sendattempt, Attempt(wdraft[w].id, status, error))
    /\ sinceApprove' = [sinceApprove EXCEPT ![wdraft[w].id] = @ + 1]
    /\ now' = now + 1

\* Mutant: the no-recipient branch falls through to a sleep.
AfterFastFailSleeps == "sleeping"

\* Where the worker goes after the no-recipient commit: `continue`.
AfterFastFail == "poll"

\* if not to_email: FAILED, a failed attempt, commit, continue. The branch
\* has no print.
WorkerFastFail(w) ==
    /\ ClockRuns
    /\ wpc[w] = "claimed"
    /\ wdraft[w].to_email = NO_EMAIL
    /\ CommitOutcome(w, FAILED, NO_RECIPIENT)
    /\ wpc' = [wpc EXCEPT ![w] = AfterFastFail]
    /\ wdraft' = [wdraft EXCEPT ![w] = NO_DRAFT]
    /\ UNCHANGED <<contact, rate, once, running, wsleep, smtp, elapsed,
                   stdout, research, approvals, call>>

\* build_message raises (it is called outside the try): the exception leaves
\* run_worker and the process ends; nothing is committed.
WorkerBuildCrash(w) ==
    /\ wpc[w] = "claimed"
    /\ wdraft[w].to_email # NO_EMAIL
    /\ wpc' = [wpc EXCEPT ![w] = "crashed"]
    /\ wdraft' = [wdraft EXCEPT ![w] = NO_DRAFT]
    /\ UNCHANGED <<contact, draft, sendattempt, now, rate, once, running, wsleep,
                   smtp, elapsed, sinceApprove,
                   stdout, research, approvals, call>>

\* The message build_message makes of the worker's draft object.
Message(w, ok) ==
    [draft_id |-> wdraft[w].id, to_email |-> wdraft[w].to_email,
     subject |-> wdraft[w].subject, body_text |-> wdraft[w].body_text, ok |-> ok]

\* Mutant: the shorter backoff is used after a successful delivery too.
SuccessSleepBackoff == Min(BACKOFF_CAP_SECONDS, rate)

\* time.sleep(settings.RATE_LIMIT_SECONDS) after a delivery
SuccessSleep == rate

\* Mutant: the poll interval is slept after a delivery exception.
FailureSleepPoll == Min(POLL_SECONDS, rate)

\* time.sleep(min(30, settings.RATE_LIMIT_SECONDS)) after a delivery exception
FailureSleep == Min(BACKOFF_CAP_SECONDS, rate)

\* print(f"[SENT] {company.name} -> {to_email} | subject={draft.subject}") and
\* print(f"[FAILED] {company.name} -> {to_email}: {e}")
StatusLine(w, tag) ==
    [tag |-> tag, to_email |-> wdraft[w].to_email, subject |-> wdraft[w].subject]

\* send_smtp(msg) returns or raises; the outcome is committed and printed,
\* then the worker sleeps.
WorkerDeliver(w, ok) ==
    /\ ClockRuns
    /\ wpc[w] = "claimed"
    /\ wdraft[w].to_email # NO_EMAIL
    /\ smtp' = Append(smtp, Message(w, ok))
    /\ IF ok THEN CommitOutcome(w, SENT, "")
             ELSE CommitOutcome(w, FAILED, SMTP_ERROR)
    /\ stdout' = Append(stdout, StatusLine(w, IF ok THEN "[SENT]" ELSE "[FAILED]"))
    /\ elapsed' = 0
    /\ wsleep' = [wsleep EXCEPT ![w] = IF ok THEN SuccessSleep ELSE FailureSleep]
    /\ wpc' = [wpc EXCEPT ![w] = "sleeping"]
    /\ wdraft' = [wdraft EXCEPT ![w] = NO_DRAFT]
    /\ UNCHANGED <<contact, rate, once, running, research, approvals, call>>

\* time.sleep returns; then `if once: return`, else the next iteration.
WorkerWake(w) ==
    /\ wpc[w] = "sleeping"
    /\ elapsed' = IF smtp = <<>> THEN 0 ELSE Min(MaxElapsed, elapsed + wsleep[w])
    /\ wsleep' = [wsleep EXCEPT ![w] = 0]
    /\ wpc' = [wpc EXCEPT ![w] = IF once THEN "done" ELSE "poll"]
    /\ UNCHANGED <<contact, draft, sendattempt, now, rate, once, running, wdraft,
                   smtp, sinceApprove,
                   stdout, research, approvals, call>>

(* ------------------------------- Next ---------------------------------- *)

Next ==
    \/ \E c \in Companies, top \in TopChoices : Research(c, top)
    \/ \E d \in 1..MaxDrafts, s \in EditedSubjects, b \in EditedBodies, k \in 0..MaxContactId :
          Save(d, s, b, k)
    \/ \E d \in 1..MaxDrafts : Approve(d)
    \/ \E d \in 1..MaxDrafts : Unapprove(d)
    \/ \E w \in WorkerIds : WorkerSelect(w)
    \/ \E w \in WorkerIds : WorkerReturnIdle(w)
    \/ \E w \in WorkerIds : WorkerPollSleep(w)
    \/ \E w \in WorkerIds : WorkerFastFail(w)
    \/ \E w \in WorkerIds : WorkerBuildCrash(w)
    \/ \E w \in WorkerIds, ok \in BOOLEAN : WorkerDeliver(w, ok)
    \/ \E w \in WorkerIds : WorkerWake(w)

Spec == Init /\ [][Next]_vars

(* ------------------------- more than one worker ------------------------ *)

\* `python -m outreach_app.queue.worker` started once or twice against the
\* same database, with the default rate limit.
PoolInit ==
    /\ InitStore
    /\ \E started \in {{"w1"}, {"w1", "w2"}} : InitWorkers(started)
    /\ once \in BOOLEAN
    /\ rate = DEFAULT_RATE_LIMIT_SECONDS

PoolSpec == PoolInit /\ [][Next]_vars

(* ------------------------ the loop under fairness ---------------------- *)

\* The reviewers act finitely often: they stop while the clock still has a
\* timestamp for every draft the worker may have to commit.
ReviewersActive == now < MaxTime - MaxDrafts

\* A step of the worker process w in loop mode.
WorkerNext(w) ==
    \/ WorkerSelect(w)
    \/ WorkerPollSleep(w)
    \/ WorkerFastFail(w)
    \/ WorkerBuildCrash(w)
    \/ \E ok \in BOOLEAN : WorkerDeliver(w, ok)
    \/ WorkerWake(w)

LiveInit ==
    /\ InitStore
    /\ InitWorkers({"w1"})
    /\ once = FALSE
    /\ rate \in RateChoices

LiveNext ==
    \/ ReviewersActive /\ \E c \in Companies, top \in TopChoices : Research(c, top)
    \/ ReviewersActive /\ \E d \in 1..MaxDrafts, s \in EditedSubjects, b \in EditedBodies,
                              k \in 0..MaxContactId : Save(d, s, b, k)
    \/ ReviewersActive /\ \E d \in 1..MaxDrafts : Approve(d)
    \/ ReviewersActive /\ \E d \in 1..MaxDrafts : Unapprove(d)
    \/ WorkerNext("w1")

\* The worker process is scheduled whenever it can take a step: a sleep
\* ends, a query returns, and send_smtp returns or raises (it connects with
\* timeout=30). Every step of the worker moves its position.
LiveSpec == LiveInit /\ [][LiveNext]_vars /\ WF_wpc(WorkerNext("w1"))

(* ------------------- run_worker, statement by statement ---------------- *)

\* Spec takes the assignments of a branch of run_worker and its commit as
\* one step. StepSpec separates them: the branch assigns draft.status and
\* draft.updated_at = datetime.utcnow() to the object of its session, and
\* s.commit() writes the row later; the review handlers run in another
\* process and can commit in between.

\* The worker's draft object after draft.status = status and
\* draft.updated_at = datetime.utcnow(), with the error text of the
\* SendAttempt the branch adds.
Assigned(w, status, error) ==
    [id |-> wdraft[w].id,
     contact_id |-> wdraft[w].contact_id,
     subject |-> wdraft[w].subject,
     body_text |-> wdraft[w].body_text,
     to_email |-> wdraft[w].to_email,
     status |-> status,
     updated_at |-> now,
     error |-> error]

\* if not to_email: draft.status = FAILED; draft.updated_at = utcnow()
WorkerAssignNoRecipient(w) ==
    /\ ClockRuns
    /\ wpc[w] = "claimed"
    /\ wdraft[w].to_email = NO_EMAIL
    /\ wdraft' = [wdraft EXCEPT ![w] = Assigned(w, FAILED, NO_RECIPIENT)]
    /\ now' = now + 1
    /\ wpc' = [wpc EXCEPT ![w] = "dirty"]
    /\ UNCHANGED <<contact, draft, sendattempt, rate, once, running, wsleep, smtp, elapsed,
                   sinceApprove, stdout, research, approvals, call>>

\* send_smtp(msg) returns or raises; then draft.status and draft.updated_at
\* are assigned in the try or in the except branch.
WorkerSendAndAssign(w, ok) ==
    /\ ClockRuns
    /\ wpc[w] = "claimed"
    /\ wdraft[w].to_email # NO_EMAIL
    /\ smtp' = Append(smtp, Message(w, ok))
    /\ elapsed' = 0
    /\ wdraft' = [wdraft EXCEPT ![w] = IF ok THEN Assigned(w, SENT, "")
                                             ELSE Assigned(w, FAILED, SMTP_ERROR)]
    /\ now' = now + 1
    /\ wpc' = [wpc EXCEPT ![w] = "dirty"]
    /\ UNCHANGED <<contact, draft, sendattempt, rate, once, running, wsleep,
                   sinceApprove, stdout, research, approvals, call>>

\* s.add(draft); s.add(SendAttempt(...)); s.commit(): the UPDATE writes the
\* two assigned columns of the row. Then `continue` in the no-recipient
\* branch, print and time.sleep in the two others.
WorkerCommit(w) ==
    /\ wpc[w] = "dirty"
    /\ draft' = [draft EXCEPT ![wdraft[w].id].status = wdraft[w].status,
                              ![wdraft[w].id].updated_at = wdraft[w].updated_at]
    /\ sendattempt' = Append(sendattempt,
                             [draft_id |-> wdraft[w].id, status |-> wdraft[w].status,
                              error |-> wdraft[w].error, timestamp |-> wdraft[w].updated_at])
    /\ sinceApprove' = [sinceApprove EXCEPT ![wdraft[w].id] = @ + 1]
    /\ IF wdraft[w].to_email = NO_EMAIL
       THEN /\ wpc' = [wpc EXCEPT ![w] = AfterFastFail]
            /\ UNCHANGED <<stdout, wsleep>>
       ELSE /\ stdout' = Append(stdout,
                                StatusLine(w, IF wdraft[w].status = SENT THEN "[SENT]"
                                                                         ELSE "[FAILED]"))
            /\ wsleep' = [wsleep EXCEPT ![w] = IF wdraft[w].status = SENT THEN SuccessSleep
                                                                          ELSE FailureSleep]
            /\ wpc' = [wpc EXCEPT ![w] = "sleeping"]
    /\ wdraft' = [wdraft EXCEPT ![w] = NO_DRAFT]
    /\ UNCHANGED <<contact, now, rate, once, running, smtp, elapsed, research, approvals, call>>

StepNext ==
    \/ \E c \in Companies, top \in TopChoices : Research(c, top)
    \/ \E d \in 1..MaxDrafts, s \in EditedSubjects, b \in EditedBodies, k \in 0..MaxContactId :
          Save(d, s, b, k)
    \/ \E d \in 1..MaxDrafts : Approve(d)
    \/ \E d \in 1..MaxDrafts : Unapprove(d)
    \/ \E w \in WorkerIds : WorkerSelect(w)
    \/ \E w \in WorkerIds : WorkerReturnIdle(w)
    \/ \E w \in WorkerIds : WorkerPollSleep(w)
    \/ \E w \in WorkerIds : WorkerAssignNoRecipient(w)
    \/ \E w \in WorkerIds : WorkerBuildCrash(w)
    \/ \E w \in WorkerIds, ok \in BOOLEAN : WorkerSendAndAssign(w, ok)
    \/ \E w \in WorkerIds : WorkerCommit(w)
    \/ \E w \in WorkerIds : WorkerWake(w)

StepSpec == Init /\ [][StepNext]_vars

(* ------------------------- strings and characters ---------------------- *)

\* A Python str is a sequence of one-character strings.

LowerCase == <<"a", "b", "c", "d", "e", "f", "g", "h", "i", "j", "k", "l", "m", "n", "o", "p", "q", "r", "s", "t", "u", "v", "w", "x", "y", "z">>
UpperCase == <<"A", "B", "C", "D", "E", "F", "G", "H", "I", "J", "K", "L", "M", "N", "O", "P", "Q", "R", "S", "T", "U", "V", "W", "X", "Y", "Z">>

Letters == {LowerCase[i] : i \in DOMAIN LowerCase} \cup {UpperCase[i] : i \in DOMAIN UpperCase}
Digits == {"0", "1", "2", "3", "4", "5", "6", "7", "8", "9"}

\* The characters in code-point order, for the comparison of strings.
CodePoints ==
    <<"\t", "\n", " ", "!", "\"", "%", "'", "(", ")", "+", ",", "-", ".", "/", "0", "1", "2", "3", "4", "5", "6", "7", "8", "9", ":", ";", "<", "=", ">", "@", "A", "B", "C", "D", "E", "F", "G", "H", "I", "J", "K", "L", "M", "N", "O", "P", "Q", "R", "S", "T", "U", "V", "W", "X", "Y", "Z", "[", "]", "_", "a", "b", "c", "d", "e", "f", "g", "h", "i", "j", "k", "l", "m", "n", "o", "p", "q", "r", "s", "t", "u", "v", "w", "x", "y", "z", "{", "|", "}">>

Ord(c) == CHOOSE i \in DOMAIN CodePoints : CodePoints[i] = c

\* a < b of two str
StrLess(a, b) ==
    \E i \in 1..Len(b) :
        /\ i <= Len(a) + 1
        /\ \A j \in 1..(i - 1) : a[j] = b[j]
        /\ (i = Len(a) + 1 \/ Ord(a[i]) < Ord(b[i]))

\* sorted(S) of a set of str
RECURSIVE Sorted(_)
Sorted(S) ==
    IF S = {} THEN <<>>
    ELSE LET m == CHOOSE x \in S : \A y \in S : x = y \/ StrLess(x, y)
         IN <<m>> \o Sorted(S \ {m})

\* str.lower()
lower(s) ==
    [i \in DOMAIN s |->
        IF \E j \in DOMAIN UpperCase : UpperCase[j] = s[i]
        THEN LowerCase[CHOOSE j \in DOMAIN UpperCase : UpperCase[j] = s[i]]
        ELSE s[i]]

\* k in s
Contains(s, k) == \E i \in 0..(Len(s) - Len(k)) : SubSeq(s, i + 1, i + Len(k)) = k

\* any(k in s for k in kws)
ContainsAny(s, kws) == \E k \in kws : Contains(s, k)

RECURSIVE LStrip(_, _)
LStrip(s, chars) ==
    IF s # <<>> /\ Head(s) \in chars THEN LStrip(Tail(s), chars) ELSE s

RECURSIVE RStrip(_, _)
RStrip(s, chars) ==
    IF s # <<>> /\ s[Len(s)] \in chars THEN RStrip(SubSeq(s, 1, Len(s) - 1), chars) ELSE s

\* str.strip(chars)
Strip(s, chars) == RStrip(LStrip(s, chars), chars)

\* the characters str.strip() removes
Whitespace == {" ", "\t", "\n"}

(* ------------------------------ finder.py ------------------------------ *)

\* [a-zA-Z0-9._%+-] and [a-zA-Z0-9.-] of EMAIL_RE
LocalChars == Letters \cup Digits \cup {".", "_", "%", "+", "-"}
DomainChars == Letters \cup Digits \cup {".", "-"}

\* The length of the longest run of characters of the class that starts at i.
RECURSIVE RunLen(_, _, _)
RunLen(s, i, class) ==
    IF i <= Len(s) /\ s[i] \in class THEN 1 + RunLen(s, i + 1, class) ELSE 0

\* The position of the last character of the match of EMAIL_RE that starts
\* at i, or 0 when there is none. The local part is the whole run before the
\* "@"; the domain part backtracks from the longest run to the last "." that
\* is followed by two letters or more, and the match takes all these letters.
MatchEnd(s, i) ==
    LET n == RunLen(s, i, LocalChars)
        a == i + n + 1
        r == IF n > 0 /\ i + n <= Len(s) /\ s[i + n] = "@"
             THEN RunLen(s, a, DomainChars) ELSE 0
        ks == {k \in 1..(r - 1) : s[a + k] = "." /\ RunLen(s, a + k + 1, Letters) >= 2}
    IN IF ks = {} THEN 0
       ELSE LET k == SetMax(ks) IN a + k + RunLen(s, a + k + 1, Letters)

\* EMAIL_RE.finditer(text): the matches from left to right, not overlapping
RECURSIVE FindIter(_, _)
FindIter(s, pos) ==
    IF pos > Len(s) THEN <<>>
    ELSE LET end == MatchEnd(s, pos)
         IN IF end = 0 THEN FindIter(s, pos + 1)
            ELSE <<SubSeq(s, pos, end)>> \o FindIter(s, end + 1)

\* the argument of the second strip of extract_emails
CLEANUP_CHARS == {".", ",", ";", ":", "(", ")", "[", "]", "{", "}", "<", ">", "\"", "'"}

\* extract_emails(text): the cleaned matches, without duplicates, sorted
extract_emails(text) ==
    LET matches == FindIter(text, 1)
        cleaned == {Strip(Strip(matches[i], Whitespace), CLEANUP_CHARS) : i \in DOMAIN matches}
    IN Sorted(cleaned \ {<<>>})

\* ROLE_KEYWORDS, in the order of the dict
ROLE_KEYWORDS ==
    << [role |-> "csr",
        kws |-> {<<"c", "s", "r">>, <<"s", "u", "s", "t", "a", "i", "n", "a", "b">>, <<"e", "s", "g">>, <<"c", "o", "m", "m", "u", "n", "i", "t", "y">>, <<"i", "m", "p", "a", "c", "t">>,
                 <<"f", "o", "u", "n", "d", "a", "t", "i", "o", "n">>, <<"r", "e", "s", "p", "o", "n", "s", "i", "b", "i", "l", "i", "t", "y">>}],
       [role |-> "partnership",
        kws |-> {<<"p", "a", "r", "t", "n", "e", "r">>, <<"p", "a", "r", "t", "n", "e", "r", "s", "h", "i", "p">>, <<"a", "l", "l", "i", "a", "n", "c", "e", "s">>, <<"c", "o", "l", "l", "a", "b">>, <<"s", "p", "o", "n", "s", "o", "r">>,
                 <<"s", "p", "o", "n", "s", "o", "r", "s", "h", "i", "p">>}],
       [role |-> "marketing",
        kws |-> {<<"m", "a", "r", "k", "e", "t", "i", "n", "g">>, <<"b", "r", "a", "n", "d">>, <<"c", "o", "m", "m", "u", "n", "i", "c", "a", "t", "i", "o", "n", "s">>, <<"c", "o", "m", "m", "s">>, <<"p", "r">>,
                 <<"m", "e", "d", "i", "a">>}] >>

GENERIC_INBOX_HINTS ==
    {<<"i", "n", "f", "o", "@">>, <<"c", "o", "n", "t", "a", "c", "t", "@">>, <<"h", "e", "l", "l", "o", "@">>, <<"s", "u", "p", "p", "o", "r", "t", "@">>, <<"e", "n", "q", "u", "i", "r", "y", "@">>, <<"i", "n", "q", "u", "i", "r", "y", "@">>}

\* Mutant: "partnership" is not in the list the page text is searched for.
VocabularyWithoutPartnership ==
    {<<"s", "p", "o", "n", "s", "o", "r">>, <<"s", "p", "o", "n", "s", "o", "r", "s", "h", "i", "p">>, <<"c", "o", "l", "l", "a", "b", "o", "r", "a", "t">>, <<"c", "s", "r">>, <<"e", "s", "g">>, <<"f", "o", "u", "n", "d", "a", "t", "i", "o", "n">>}

\* the list the page text is searched for in guess_role
TEXT_VOCABULARY ==
    {<<"s", "p", "o", "n", "s", "o", "r">>, <<"s", "p", "o", "n", "s", "o", "r", "s", "h", "i", "p">>, <<"p", "a", "r", "t", "n", "e", "r", "s", "h", "i", "p">>, <<"c", "o", "l", "l", "a", "b", "o", "r", "a", "t">>, <<"c", "s", "r">>, <<"e", "s", "g">>,
     <<"f", "o", "u", "n", "d", "a", "t", "i", "o", "n">>}

\* Confidence is counted in tenths: 0.6, 0.2, 0.2, the cap 1.0 (the float
\* sums 0.6 + 0.2 and 0.6 + 0.2 + 0.2 give 0.8 and, after min, 1.0).
ROLE_SCORE == 6
HINT_SCORE == 2
TEXT_SCORE == 2
MAX_CONFIDENCE == 10

\* Mutant: a generic-inbox hint adds nothing to the score.
ScoreWithoutHint(role_hit, hint_hit, text_hit) ==
    Min(MAX_CONFIDENCE, (IF role_hit THEN ROLE_SCORE ELSE 0) + (IF text_hit THEN TEXT_SCORE ELSE 0))

\* score after the three tests of guess_role, then min(1.0, score)
Score(role_hit, hint_hit, text_hit) ==
    Min(MAX_CONFIDENCE,
        (IF role_hit THEN ROLE_SCORE ELSE 0) + (IF hint_hit THEN HINT_SCORE ELSE 0)
            + (IF text_hit THEN TEXT_SCORE ELSE 0))

\* Mutant: the loop over ROLE_KEYWORDS has no break, the last role hit stays.
guess_roleLastRoleHit(email, context_url, page_text) ==
    LET e == lower(email)
        url == lower(context_url)
        text == lower(page_text)
        hits == {i \in DOMAIN ROLE_KEYWORDS :
                    ContainsAny(e, ROLE_KEYWORDS[i].kws) \/ ContainsAny(url, ROLE_KEYWORDS[i].kws)}
        hint == ContainsAny(e, GENERIC_INBOX_HINTS)
        role == IF hits # {} THEN ROLE_KEYWORDS[CHOOSE i \in hits : \A j \in hits : i >= j].role
                ELSE IF hint THEN "generic"
                ELSE "unknown"
    IN [role |-> role,
        confidence |-> Score(hits # {}, hint, ContainsAny(text, TEXT_VOCABULARY))]

\* guess_role(email, context_url, page_text)
guess_role(email, context_url, page_text) ==
    LET e == lower(email)
        url == lower(context_url)
        text == lower(page_text)
        hits == {i \in DOMAIN ROLE_KEYWORDS :
                    ContainsAny(e, ROLE_KEYWORDS[i].kws) \/ ContainsAny(url, ROLE_KEYWORDS[i].kws)}
        hint == ContainsAny(e, GENERIC_INBOX_HINTS)
        role == IF hits # {} THEN ROLE_KEYWORDS[CHOOSE i \in hits : \A j \in hits : i <= j].role
                ELSE IF hint THEN "generic"
                ELSE "unknown"
    IN [role |-> role,
        confidence |-> Score(hits # {}, hint, ContainsAny(text, TEXT_VOCABULARY))]

\* FoundEmail(email, found_on, role_guess, confidence)
FoundEmail(email, found_on, g) ==
    [email |-> email, found_on |-> found_on, role_guess |-> g.role, confidence |-> g.confidence]

\* Mutant: the record of an email is never replaced.
FoundAfterEmailFirstWins(found, fe) ==
    IF \E i \in DOMAIN found : found[i].email = fe.email
    THEN found
    ELSE Append(found, fe)

\* Mutant: a record is replaced on equal confidence too.
FoundAfterEmailLastWins(found, fe) ==
    IF \E i \in DOMAIN found : found[i].email = fe.email
    THEN LET i == CHOOSE j \in DOMAIN found : found[j].email = fe.email
         IN IF fe.confidence >= found[i].confidence
            THEN [found EXCEPT ![i] = fe] ELSE found
    ELSE Append(found, fe)

\* if e not in found or conf > found[e].confidence: found[e] = FoundEmail(...)
\* The dict is kept as the sequence of its values in insertion order.
FoundAfterEmail(found, fe) ==
    IF \E i \in DOMAIN found : found[i].email = fe.email
    THEN LET i == CHOOSE j \in DOMAIN found : found[j].email = fe.email
         IN IF fe.confidence > found[i].confidence
            THEN [found EXCEPT ![i] = fe] ELSE found
    ELSE Append(found, fe)

\* for e in extract_emails(txt): ...
RECURSIVE FoundAfterPage(_, _, _)
FoundAfterPage(found, emails, page) ==
    IF emails = <<>> THEN found
    ELSE FoundAfterPage(
             FoundAfterEmail(found,
                 FoundEmail(Head(emails), page.url, guess_role(Head(emails), page.url, page.text))),
             Tail(emails), page)

\* for url, txt in pages: ...
RECURSIVE FoundAfterPages(_, _)
FoundAfterPages(found, pages) ==
    IF pages = <<>> THEN found
    ELSE FoundAfterPages(FoundAfterPage(found, extract_emails(Head(pages).text), Head(pages)),
                         Tail(pages))

\* role_weight.get(x.role_guess, 0)
role_weight(role) ==
    CASE role = "csr" -> 3
      [] role = "partnership" -> 3
      [] role = "marketing" -> 2
      [] role = "generic" -> 1
      [] OTHER -> 0

\* key(x) >= key(y) for key = (confidence, role weight)
KeyAtLeast(x, y) ==
    \/ x.confidence > y.confidence
    \/ x.confidence = y.confidence /\ role_weight(x.role_guess) >= role_weight(y.role_guess)

\* sorted(..., reverse=True) is stable: a record goes behind the records
\* before it whose key is not smaller.
RECURSIVE SortedByKey(_)
SortedByKey(seq) ==
    IF seq = <<>> THEN <<>>
    ELSE LET init == SortedByKey(SubSeq(seq, 1, Len(seq) - 1))
             x == seq[Len(seq)]
             p == Cardinality({i \in DOMAIN init : KeyAtLeast(init[i], x)})
         IN SubSeq(init, 1, p) \o <<x>> \o SubSeq(init, p + 1, Len(init))

\* find_contacts_from_pages(pages)
find_contacts_from_pages(pages) == SortedByKey(FoundAfterPages(<<>>, pages))

(* ------------------------------ ranker.py ------------------------------ *)

\* f.email.split("@", 1)[0]
LocalPart(email) ==
    IF \E i \in DOMAIN email : email[i] = "@"
    THEN SubSeq(email, 1, (CHOOSE i \in DOMAIN email :
                              email[i] = "@" /\ \A j \in 1..(i - 1) : email[j] # "@") - 1)
    ELSE email

\* "." in local or "_" in local
LooksPersonal(email) == \E i \in DOMAIN LocalPart(email) : LocalPart(email)[i] \in {".", "_"}

\* the 0.8 of `f.confidence < 0.8`, in tenths
PERSONAL_MIN_CONFIDENCE == 8

\* The loop of pick_top_contacts from candidate i on: the length test comes
\* after the append.
RECURSIVE PickFrom(_, _, _, _)
PickFrom(found, i, picked, max_n) ==
    IF i > Len(found) THEN picked
    ELSE IF LooksPersonal(found[i].email) /\ found[i].confidence < PERSONAL_MIN_CONFIDENCE
         THEN PickFrom(found, i + 1, picked, max_n)
    ELSE IF Len(picked) + 1 >= max_n THEN Append(picked, found[i])
    ELSE PickFrom(found, i + 1, Append(picked, found[i]), max_n)

\* pick_top_contacts(found, max_n)
pick_top_contacts(found, max_n) == PickFrom(found, 1, <<>>, max_n)

(* ------------------------------- llm.py -------------------------------- *)

\* What a call returns or raises: exc is the class of the exception that
\* leaves the call, NO_EXC when it returns `value`.
NO_EXC == "none"

Return(value) == [exc |-> NO_EXC, value |-> value]

Raise(exc) == [exc |-> exc, value |-> <<>>]

\* _default_base_url()
default_base_url(settings) ==
    IF settings.LLM_PROVIDER = "openai" THEN "https://api.openai.com/v1"
    ELSE IF settings.LLM_PROVIDER = "deepseek" THEN "https://api.deepseek.com/v1"
    ELSE settings.LLM_BASE_URL

\* chat_completion(messages): the settings decide whether the request is
\* made; `response` is what requests.post and the remote end then do.
chat_completion(settings, response) ==
    IF settings.LLM_PROVIDER = "none" THEN Raise("LLMError")
    ELSE IF (IF settings.LLM_BASE_URL # "" THEN settings.LLM_BASE_URL
             ELSE default_base_url(settings)) = "" THEN Raise("LLMError")
    ELSE IF settings.LLM_API_KEY = "" THEN Raise("LLMError")
    ELSE IF response.kind = "unreachable" THEN Raise("ConnectionError")
    ELSE IF response.kind = "timeout" THEN Raise("Timeout")
    ELSE IF response.status_code >= 400 THEN Raise("LLMError")
    ELSE IF response.body = "not json" THEN Raise("JSONDecodeError")
    ELSE IF response.body = "no choices" THEN Raise("LLMError")
    ELSE Return(response.content)

\* The text of a completion, for the JSON functions, is the sequence of its
\* lexemes: brackets, braces, commas, "p" for a scalar (in an object: a key
\* with a scalar), "t" for a word of prose.

\* s[i], or "" past the end
At(s, i) == IF i \in DOMAIN s THEN s[i] ELSE ""

\* out.find(c) and out.rfind(c), counted from 1; 0 for -1
Find(s, c) ==
    IF \E i \in DOMAIN s : s[i] = c
    THEN CHOOSE i \in DOMAIN s : s[i] = c /\ \A j \in 1..(i - 1) : s[j] # c
    ELSE 0

RFind(s, c) ==
    IF \E i \in DOMAIN s : s[i] = c
    THEN CHOOSE i \in DOMAIN s : s[i] = c /\ \A j \in (i + 1)..Len(s) : s[j] # c
    ELSE 0

\* s.replace(old, new) for an `old` of two characters
RECURSIVE Replace(_, _, _)
Replace(s, old, new) ==
    IF s = <<>> THEN <<>>
    ELSE IF Len(s) >= 2 /\ SubSeq(s, 1, 2) = old THEN new \o Replace(SubSeq(s, 3, Len(s)), old, new)
    ELSE <<Head(s)>> \o Replace(Tail(s), old, new)

\* The JSON decoder on the lexemes: the position behind the value that
\* starts at i, or 0 when there is none.
RECURSIVE ParseValue(_, _)
RECURSIVE ParseItems(_, _, _)
ParseValue(s, i) ==
    IF At(s, i) = "p" THEN i + 1
    ELSE IF At(s, i) \in {"{", "["}
         THEN LET close == IF At(s, i) = "{" THEN "}" ELSE "]"
              IN IF At(s, i + 1) = close THEN i + 2 ELSE ParseItems(s, i + 1, close)
    ELSE 0

ParseItems(s, i, close) ==
    LET m == ParseValue(s, i)
    IN IF m = 0 THEN 0
       ELSE IF At(s, m) = "," THEN ParseItems(s, m + 1, close)
       ELSE IF At(s, m) = close THEN m + 1
       ELSE 0

\* json.loads(raw) returns: raw is one value and nothing else
Loads(raw) == ParseValue(raw, 1) = Len(raw) + 1

\* raw.replace(",}", "}").replace(",]", "]")
WithoutTrailingCommas(raw) ==
    Replace(Replace(raw, <<",", "}">>, <<"}">>), <<",", "]">>, <<"]">>)

\* json_from_llm(messages, schema_hint)
json_from_llm(settings, response) ==
    LET r == chat_completion(settings, response)
        out == r.value
        start == Find(out, "{")
        end == RFind(out, "}")
        raw == SubSeq(out, start, end)
        raw2 == WithoutTrailingCommas(raw)
    IN IF r.exc # NO_EXC THEN r
       ELSE IF start = 0 \/ end = 0 THEN Raise("LLMError")
       ELSE IF Loads(raw) THEN Return([json |-> raw])
       ELSE IF Loads(raw2) THEN Return([json |-> raw2])
       ELSE Raise("JSONDecodeError")

(* ------------------------------ brief.py ------------------------------- *)

\* a or b of two str
Or(a, b) == IF a # "" THEN a ELSE b

\* the dict of the `except LLMError` branch
FallbackBrief(org_profile, company_profile) ==
    [company_angle |-> Or(company_profile.csr_focus,
                          Or(company_profile.mission_values, "phat trien ben vung / cong dong")),
     why_match |-> <<"why match">>,
     best_cta |-> "mot cuoc goi 15 phut",
     benefits |-> <<"benefit 1", "benefit 2", "benefit 3">>,
     subject_ideas |-> <<"subject idea 1", "subject idea 2", "subject idea 3">>]

\* try: return json_from_llm(...) except LLMError: return {...}
BriefOf(r, org_profile, company_profile) ==
    IF r.exc = "LLMError" THEN Return(FallbackBrief(org_profile, company_profile))
    ELSE r

\* build_personalization_brief(org_profile, company_profile, language)
build_personalization_brief(settings, response, org_profile, company_profile) ==
    BriefOf(json_from_llm(settings, response), org_profile, company_profile)

(* --------------------------- email_writer.py --------------------------- *)

TEMPLATE_NOTE == "Template-generated (offline fallback)."
LLM_NOTE == "LLM-generated with brief."

\* brief.get(key) of a brief that may lack the key: None counts as empty
Get(brief, key) == IF key \in DOMAIN brief THEN brief[key] ELSE <<>>

\* pick(idx, default)
Pick(brief, idx, default) ==
    IF idx < Len(Get(brief, "benefits")) THEN Get(brief, "benefits")[idx + 1] ELSE default

\* write_email_template(org, company, brief, language)
write_email_template(brief, language) ==
    Return([subject |-> IF Get(brief, "subject_ideas") # <<>>
                        THEN Get(brief, "subject_ideas")[1] ELSE "Sponsorship partnership",
            body |-> [template |-> IF language = "vi" THEN "VI_TEMPLATE" ELSE "EN_TEMPLATE",
                      benefits |-> <<Pick(brief, 0, "Brand exposure to a relevant audience"),
                                     Pick(brief, 1, "Meaningful community impact"),
                                     Pick(brief, 2, "Post-event impact reporting")>>],
            notes |-> TEMPLATE_NOTE])

\* The position of the first "\n\n" in s, or 0.
BlankLine(s) ==
    IF \E i \in 1..(Len(s) - 1) : s[i] = "\n" /\ s[i + 1] = "\n"
    THEN CHOOSE i \in 1..(Len(s) - 1) :
             /\ s[i] = "\n" /\ s[i + 1] = "\n"
             /\ \A j \in 1..(i - 1) : ~(s[j] = "\n" /\ s[j + 1] = "\n")
    ELSE 0

\* s.split("\n\n", 1)
SplitOnce(s) ==
    IF BlankLine(s) = 0 THEN <<s>>
    ELSE <<SubSeq(s, 1, BlankLine(s) - 1), SubSeq(s, BlankLine(s) + 2, Len(s))>>

\* The body of the try of write_email_with_llm, behind a chat_completion
\* that returned `out`. brief.get("subject_ideas", [...])[0] takes the
\* default only when the key is missing.
EmailOfOutput(out, brief) ==
    LET parts == SplitOnce(Strip(out, Whitespace))
    IN IF Len(parts) = 1
       THEN IF "subject_ideas" \notin DOMAIN brief
            THEN Return([subject |-> "Hop tac tai tro", body |-> parts[1], notes |-> LLM_NOTE])
            ELSE IF brief.subject_ideas = <<>> THEN Raise("IndexError")
            ELSE Return([subject |-> brief.subject_ideas[1], body |-> parts[1], notes |-> LLM_NOTE])
       ELSE Return([subject |-> Strip(parts[1], Whitespace),
                    body |-> Strip(parts[2], Whitespace), notes |-> LLM_NOTE])

\* write_email_with_llm(org, company, brief, language)
write_email_with_llm(settings, response, brief, language) ==
    LET r == chat_completion(settings, response)
    IN IF r.exc = "LLMError" THEN write_email_template(brief, language)
       ELSE IF r.exc # NO_EXC THEN r
       ELSE EmailOfOutput(r.value, brief)

(* ----------------- calls of the finder, ranker and writer -------------- *)

\* All sequences over S of length n at most.
SeqsUpTo(S, n) == UNION {[1..k -> S] : k \in 0..n}

INFO_AT_ACME == <<"i", "n", "f", "o", "@", "a", "c", "m", "e", ".", "o", "r", "g">>
CSR_AT_ACME == <<"c", "s", "r", "@", "a", "c", "m", "e", ".", "o", "r", "g">>
JANE_DOE_AT_ACME == <<"j", "a", "n", "e", ".", "d", "o", "e", "@", "a", "c", "m", "e", ".", "o", "r", "g">>
PRESS_AT_ACME == <<"p", "r", "e", "s", "s", "@", "a", "c", "m", "e", ".", "o", "r", "g">>
INFO_AT_ACME_MIXED_CASE == <<"I", "n", "f", "o", "@", "A", "c", "m", "e", ".", "o", "r", "g">>

\* The emails guess_role is called with.
Emails == {INFO_AT_ACME, CSR_AT_ACME, JANE_DOE_AT_ACME, PRESS_AT_ACME, INFO_AT_ACME_MIXED_CASE}

URL_CSR == <<"h", "t", "t", "p", "s", ":", "/", "/", "a", "c", "m", "e", ".", "o", "r", "g", "/", "c", "s", "r">>
URL_PARTNERSHIP == <<"h", "t", "t", "p", "s", ":", "/", "/", "a", "c", "m", "e", ".", "o", "r", "g", "/", "p", "a", "r", "t", "n", "e", "r", "s", "h", "i", "p">>
URL_PARTNERS == <<"h", "t", "t", "p", "s", ":", "/", "/", "a", "c", "m", "e", ".", "o", "r", "g", "/", "p", "a", "r", "t", "n", "e", "r", "s">>
URL_SUSTAINABILITY == <<"h", "t", "t", "p", "s", ":", "/", "/", "a", "c", "m", "e", ".", "o", "r", "g", "/", "s", "u", "s", "t", "a", "i", "n", "a", "b", "i", "l", "i", "t", "y">>
URL_CONTACT == <<"h", "t", "t", "p", "s", ":", "/", "/", "a", "c", "m", "e", ".", "o", "r", "g", "/", "c", "o", "n", "t", "a", "c", "t">>
URL_CSR_UPPER_CASE == <<"h", "t", "t", "p", "s", ":", "/", "/", "a", "c", "m", "e", ".", "o", "r", "g", "/", "C", "S", "R">>

\* The URLs guess_role is called with; the empty one is `context_url or ""`
\* of None.
Urls == {URL_CSR, URL_PARTNERSHIP, URL_PARTNERS, URL_SUSTAINABILITY, URL_CONTACT,
         URL_CSR_UPPER_CASE, <<>>}

TEXT_INQUIRIES == <<"C", "o", "n", "t", "a", "c", "t", ":", " ", "i", "n", "f", "o", "@", "a", "c", "m", "e", ".", "o", "r", "g", " ", "f", "o", "r", " ", "p", "a", "r", "t", "n", "e", "r", "s", "h", "i", "p", " ", "i", "n", "q", "u", "i", "r", "i", "e", "s">>
TEXT_REACH_US == <<"r", "e", "a", "c", "h", " ", "u", "s", " ", "a", "t", " ", "i", "n", "f", "o", "@", "a", "c", "m", "e", ".", "o", "r", "g">>
TEXT_MAIL == <<"m", "a", "i", "l", " ", "i", "n", "f", "o", "@", "a", "c", "m", "e", ".", "o", "r", "g", " ", "o", "r", " ", "j", "a", "n", "e", ".", "d", "o", "e", "@", "a", "c", "m", "e", ".", "o", "r", "g", ".">>
TEXT_TEAM == <<"c", "s", "r", " ", "t", "e", "a", "m", ":", " ", "<", "c", "s", "r", "@", "a", "c", "m", "e", ".", "o", "r", "g", ">", ",", " ", "j", "a", "n", "e", ".", "d", "o", "e", "@", "a", "c", "m", "e", ".", "o", "r", "g", ",", " ", "p", "r", "e", "s", "s", "@", "a", "c", "m", "e", ".", "o", "r", "g">>
TEXT_PRESS == <<"m", "e", "d", "i", "a", ":", " ", "p", "r", "e", "s", "s", "@", "a", "c", "m", "e", ".", "o", "r", "g">>

\* The page texts the finder is called with.
Texts == {TEXT_INQUIRIES, TEXT_REACH_US, TEXT_MAIL, TEXT_TEAM, TEXT_PRESS}

\* The (url, text) pages fetch_site_pages returned for a company.
Pages ==
    {[url |-> URL_CSR, text |-> TEXT_REACH_US],
     [url |-> URL_PARTNERSHIP, text |-> TEXT_INQUIRIES],
     [url |-> URL_PARTNERS, text |-> TEXT_MAIL],
     [url |-> URL_SUSTAINABILITY, text |-> TEXT_TEAM],
     [url |-> URL_CONTACT, text |-> TEXT_PRESS]}

\* The lists of pages, each page once, of MaxPages pages at most.
PageLists ==
    {pages \in SeqsUpTo(Pages, MaxPages) :
        \A i, j \in DOMAIN pages : i # j => pages[i] # pages[j]}

\* The settings of the text-generation capability.
SettingsChoices ==
    [LLM_PROVIDER : {"none", "openai", "custom"},
     LLM_BASE_URL : {"", "http://llm.local/v1"},
     LLM_API_KEY : {"", "key"}]

CONFIGURED == [LLM_PROVIDER |-> "openai", LLM_BASE_URL |-> "", LLM_API_KEY |-> "key"]

\* requests.post raises, or the remote end answers with an error status, a
\* body that is not JSON, or JSON without choices[0].message.content.
FailedResponses ==
    {[kind |-> k, status_code |-> 0, body |-> "", content |-> <<>>] : k \in {"unreachable", "timeout"}}
    \cup {[kind |-> "http", status_code |-> 500, body |-> "error", content |-> <<>>]}
    \cup {[kind |-> "http", status_code |-> 200, body |-> b, content |-> <<>>] :
             b \in {"not json", "no choices"}}

\* A completion with the given content.
Completion(content) ==
    [kind |-> "http", status_code |-> 200, body |-> "chat", content |-> content]

\* The lexemes of a completion that is asked to be JSON.
JsonLexemes == {"{", "}", "[", "]", ",", "p", "t"}

\* The characters of a completion that is asked to be an email.
TextChars == {"a", " ", "\n"}

\* What the capability is and does at a call: every setting with every
\* failure and one completion, and every completion with the capability
\* configured.
Capability(contents) ==
    (SettingsChoices \X (FailedResponses \cup {Completion(<<>>)}))
    \cup ({CONFIGURED} \X {Completion(c) : c \in contents})

ORG_PROFILE == [org_name |-> "org"]

CompanyProfiles ==
    {[csr_focus |-> "", mission_values |-> ""], [csr_focus |-> "education", mission_values |-> ""]}

\* The briefs write_email_with_llm is called with: the fallback brief, a
\* generated one with an empty subject_ideas, a generated one without the key.
Briefs ==
    {FallbackBrief(ORG_PROFILE, [csr_focus |-> "", mission_values |-> ""]),
     [subject_ideas |-> <<>>, benefits |-> <<"benefit 1">>],
     [benefits |-> <<>>]}

store == <<contact, draft, sendattempt, now, rate, once, running, wpc, wdraft, wsleep,
           smtp, elapsed, sinceApprove, stdout, research, approvals>>

\* The calls that can be made, each with its arguments.
ExtractEmailsCalls ==
    {[fn |-> "extract_emails", returned |-> FALSE, text |-> text] : text \in Texts}

GuessRoleCalls ==
    {[fn |-> "guess_role", returned |-> FALSE, email |-> email, url |-> url, text |-> text] :
        email \in Emails, url \in Urls, text \in Texts}

FindContactsCalls ==
    {[fn |-> "find_contacts_from_pages", returned |-> FALSE, pages |-> pages] :
        pages \in PageLists}

\* pick_top_contacts is called with the ranked list the finder returned.
PickTopContactsCalls ==
    {[fn |-> "pick_top_contacts", returned |-> FALSE,
      found |-> find_contacts_from_pages(pages), max_n |-> max_n] :
        pages \in PageLists, max_n \in 0..MaxPick}

BuildBriefCalls ==
    {[fn |-> "build_personalization_brief", returned |-> FALSE, settings |-> env[1],
      response |-> env[2], company_profile |-> p] :
        env \in Capability(SeqsUpTo(JsonLexemes, MaxOut)), p \in CompanyProfiles}

WriteEmailCalls ==
    {[fn |-> "write_email_with_llm", returned |-> FALSE, settings |-> env[1],
      response |-> env[2], brief |-> brief, language |-> language] :
        env \in Capability(SeqsUpTo(TextChars, MaxOut)), brief \in Briefs,
        language \in {"vi", "en"}}

\* The call returns or raises: `result` is added to the record.
Returned(result) ==
    [k \in DOMAIN call \cup {"result"} |->
        IF k = "result" THEN result ELSE IF k = "returned" THEN TRUE ELSE call[k]]

CallExtractEmails ==
    /\ call.fn = "extract_emails" /\ ~call.returned
    /\ call' = Returned(extract_emails(call.text))
    /\ UNCHANGED store

CallGuessRole ==
    /\ call.fn = "guess_role" /\ ~call.returned
    /\ call' = Returned(guess_role(call.email, call.url, call.text))
    /\ UNCHANGED store

CallFindContacts ==
    /\ call.fn = "find_contacts_from_pages" /\ ~call.returned
    /\ call' = Returned(find_contacts_from_pages(call.pages))
    /\ UNCHANGED store

CallPickTopContacts ==
    /\ call.fn = "pick_top_contacts" /\ ~call.returned
    /\ call' = Returned(pick_top_contacts(call.found, call.max_n))
    /\ UNCHANGED store

CallBuildBrief ==
    /\ call.fn = "build_personalization_brief" /\ ~call.returned
    /\ call' = Returned(build_personalization_brief(call.settings, call.response, ORG_PROFILE,
                                                    call.company_profile))
    /\ UNCHANGED store

CallWriteEmail ==
    /\ call.fn = "write_email_with_llm" /\ ~call.returned
    /\ call' = Returned(write_email_with_llm(call.settings, call.response, call.brief,
                                             call.language))
    /\ UNCHANGED store

\* No worker runs and the store stays empty; one function is called with
\* arguments drawn from the sets above.
FnInit ==
    /\ contact = <<>>
    /\ draft = <<>>
    /\ sendattempt = <<>>
    /\ now = 1
    /\ smtp = <<>>
    /\ elapsed = 0
    /\ sinceApprove = <<>>
    /\ stdout = <<>>
    /\ research = [company_id |-> NULL, top |-> <<>>]
    /\ approvals = {}
    /\ InitWorkers({})
    /\ once = FALSE
    /\ rate = DEFAULT_RATE_LIMIT_SECONDS
    /\ call \in ExtractEmailsCalls \cup GuessRoleCalls \cup FindContactsCalls
                \cup PickTopContactsCalls \cup BuildBriefCalls \cup WriteEmailCalls

FnNext ==
    \/ CallExtractEmails
    \/ CallGuessRole
    \/ CallFindContacts
    \/ CallPickTopContacts
    \/ CallBuildBrief
    \/ CallWriteEmail

FnSpec == FnInit /\ [][FnNext]_vars

(* ------------------------- vocabulary of the claims -------------------- *)

\* The single worker process of Spec.
W == "w1"

\* The positions of sendattempt that belong to draft d with the given outcome.
AttemptsOf(d, status) ==
    {i \in DOMAIN sendattempt : sendattempt[i].draft_id = d /\ sendattempt[i].status = status}

\* A step of a review handler or of the worker (a research run adds a draft row).
NoResearchStep == DOMAIN draft' = DOMAIN draft

\* A step of the worker: every step of run_worker moves its position.
WorkerStep == wpc' # wpc

\* The worker commits an outcome in this step: one row is appended.
AttemptAdded == Len(sendattempt') = Len(sendattempt) + 1

NewAttempt == sendattempt'[Len(sendattempt')]

\* send_smtp is called in this step.
TransportCalled == Len(smtp') = Len(smtp) + 1

(* -------------------------------- C1 ----------------------------------- *)

\* C1 (as claimed): no draft ever has more than one send-attempt record with
\* outcome 'sent'.
C1_AtMostOneSent ==
    \A d \in DOMAIN draft : Cardinality(AttemptsOf(d, "sent")) <= 1

(* -------------------------------- C2 ----------------------------------- *)

\* C2 (as claimed): once a draft is SENT, no step of Save, Approve, Unapprove
\* or the worker changes its status, subject, body, contact or timestamp, and
\* the worker does not hand it to the transport again.
C2_SentIsTerminal ==
    [][NoResearchStep =>
          \A d \in DOMAIN draft :
              draft[d].status = SENT =>
                  /\ draft'[d] = draft[d]
                  /\ ~(TransportCalled /\ smtp'[Len(smtp')].draft_id = d)]_vars

(* -------------------------------- C3 ----------------------------------- *)

\* The status changes C3 lists.
C3_Listed ==
    {<<DRAFT, APPROVED>>, <<APPROVED, SENT>>, <<APPROVED, FAILED>>, <<DRAFT, FAILED>>,
     <<FAILED, APPROVED>>, <<APPROVED, DRAFT>>}

\* C3 (as claimed): every change of a draft's status is one of the listed
\* changes; the only step back to DRAFT starts at APPROVED.
C3_OnlyListedTransitions ==
    [][\A d \in DOMAIN draft :
          draft'[d].status # draft[d].status =>
              <<draft[d].status, draft'[d].status>> \in C3_Listed]_vars

(* -------------------------------- C4 ----------------------------------- *)

\* C4: a step that moves a draft into SENT or FAILED appends exactly one
\* send-attempt record, for that draft and with the new status as outcome; a
\* step appends at most one record and only with such a move; the records
\* already there are neither changed nor removed.
C4_AttemptPairedWithTransition ==
    [][/\ Len(sendattempt') >= Len(sendattempt)
       /\ Len(sendattempt') <= Len(sendattempt) + 1
       /\ SubSeq(sendattempt', 1, Len(sendattempt)) = sendattempt
       /\ \A d \in DOMAIN draft :
             (draft'[d].status \in {SENT, FAILED} /\ draft'[d].status # draft[d].status)
                 => /\ AttemptAdded
                    /\ NewAttempt.draft_id = d
                    /\ NewAttempt.status = draft'[d].status
       /\ AttemptAdded =>
             /\ NewAttempt.draft_id \in DOMAIN draft
             /\ draft'[NewAttempt.draft_id].status = NewAttempt.status
             /\ draft[NewAttempt.draft_id].status # NewAttempt.status
             /\ NewAttempt.status \in {SENT, FAILED}]_vars

\* C4 witness: a delivered draft and a failed draft, each with its record.
C4_Witness ==
    \E d, e \in DOMAIN draft :
        /\ draft[d].status = SENT /\ Cardinality(AttemptsOf(d, "sent")) = 1
        /\ draft[e].status = FAILED /\ Cardinality(AttemptsOf(e, "failed")) = 1

(* -------------------------------- C5 ----------------------------------- *)

\* The drafts the worker took out of APPROVED: each of its commits appends
\* one record.
Processed == {sendattempt[i].draft_id : i \in DOMAIN sendattempt}

\* C5 (as claimed): with --once, at most one draft leaves APPROVED through the
\* worker, by delivery, delivery failure or the no-recipient fast-fail.
C5_OnceProcessesAtMostOne ==
    once => Cardinality(Processed) <= 1

(* -------------------------------- C6 ----------------------------------- *)

\* No recipient resolves for draft d: contact id null, contact row missing,
\* or empty email.
NoRecipient(d) ==
    \/ draft[d].contact_id = NULL
    \/ draft[d].contact_id \notin DOMAIN contact
    \/ contact[draft[d].contact_id].email = ""

\* C6: the worker holds no recipient exactly for a claimed draft for which
\* none resolves; its next step then makes the draft FAILED, appends exactly
\* one 'failed' record with the text "No recipient email selected", does not
\* call the transport, and is back at the top of the loop without sleeping.
C6_NoRecipientFastFail ==
    [][/\ (wpc[W] = "poll" /\ wpc'[W] = "claimed") =>
              ((wdraft'[W].to_email = NO_EMAIL) <=> NoRecipient(wdraft'[W].id))
       /\ (wpc[W] = "claimed" /\ wdraft[W].to_email = NO_EMAIL /\ WorkerStep) =>
              /\ draft'[wdraft[W].id].status = FAILED
              /\ AttemptAdded
              /\ NewAttempt.draft_id = wdraft[W].id
              /\ NewAttempt.status = "failed"
              /\ NewAttempt.error = "No recipient email selected"
              /\ smtp' = smtp
              /\ wpc'[W] = "poll"
              /\ wsleep' = wsleep
              /\ elapsed' = elapsed]_vars

\* C6 witness: a draft without contact was failed with that text, nothing was
\* handed to the transport, and the worker is at the top of its loop.
C6_Witness ==
    /\ smtp = <<>>
    /\ wpc[W] = "poll"
    /\ \E i \in DOMAIN sendattempt :
          /\ sendattempt[i].error = NO_RECIPIENT
          /\ draft[sendattempt[i].draft_id].status = FAILED
          /\ draft[sendattempt[i].draft_id].contact_id = NULL

(* -------------------------------- C7 ----------------------------------- *)

\* C7: the draft a worker iteration claims is APPROVED and no APPROVED draft
\* has a smaller updated_at at that moment.
C7_ClaimsOldestApproved ==
    [][(wpc[W] = "poll" /\ wpc'[W] = "claimed") =>
          /\ wdraft'[W].id \in DOMAIN draft
          /\ draft[wdraft'[W].id].status = APPROVED
          /\ \A o \in DOMAIN draft :
                draft[o].status = APPROVED =>
                    draft[wdraft'[W].id].updated_at <= draft[o].updated_at]_vars

\* C7 witness: the worker holds one of two APPROVED drafts, the older one.
C7_Witness ==
    /\ wpc[W] = "claimed"
    /\ draft[wdraft[W].id].status = APPROVED
    /\ \E o \in DOMAIN draft :
          /\ o < wdraft[W].id
          /\ draft[o].status = APPROVED
          /\ draft[o].updated_at > draft[wdraft[W].id].updated_at

(* -------------------------------- C8 ----------------------------------- *)

\* C8: every draft with a non-null contact references an existing contact row
\* of the draft's own company.
C8_ContactOfOwnCompany ==
    \A d \in DOMAIN draft :
        draft[d].contact_id # NULL =>
            /\ draft[d].contact_id \in DOMAIN contact
            /\ contact[draft[d].contact_id].company_id = draft[d].company_id

\* C8 witness: a company was researched twice. The draft of the first run was
\* delivered, so it had a recipient, and was never saved, so the second run's
\* delete took its contact away; the draft of the second run has a new row.
C8_Witness ==
    \E d, e \in DOMAIN draft :
        /\ d < e
        /\ draft[d].company_id = draft[e].company_id
        /\ draft[d].status = SENT
        /\ draft[d].subject = GENERATED_SUBJECT
        /\ draft[d].contact_id = NULL
        /\ draft[e].contact_id \in ContactsOf(draft[e].company_id)

(* -------------------------------- C9 ----------------------------------- *)

\* C9: the worker claims APPROVED drafts only; a FAILED draft leaves FAILED
\* only in a step of a review handler; and the worker records at most one
\* send attempt for a draft between two consecutive Approve actions on it.
C9_NoAutomaticRetry ==
    /\ [](\A d \in DOMAIN draft : sinceApprove[d] <= 1)
    /\ [][/\ (wpc[W] = "poll" /\ wpc'[W] = "claimed") =>
                 draft[wdraft'[W].id].status \notin {FAILED, SENT, DRAFT}
          /\ \A d \in DOMAIN draft :
                (draft[d].status = FAILED /\ draft'[d].status # FAILED) =>
                    (~WorkerStep /\ NoResearchStep)]_vars

\* C9 witness: a draft failed once, and the loop-mode worker has gone through
\* a later iteration that found nothing to send.
C9_Witness ==
    /\ ~once
    /\ wpc[W] = "sleeping"
    /\ wsleep[W] = POLL_SECONDS
    /\ \E d \in DOMAIN draft : draft[d].status = FAILED /\ sinceApprove[d] = 1

(* -------------------------------- C10 ---------------------------------- *)

\* C10 (as claimed): when the worker calls the transport after an earlier
\* call, at least RATE_LIMIT_SECONDS have elapsed since that call.
C10_RateLimitBetweenAttempts ==
    [][(TransportCalled /\ smtp # <<>>) => elapsed >= rate]_vars

\* C10 (amended): at least RATE_LIMIT_SECONDS have elapsed when the earlier
\* attempt succeeded, and at least min(30, RATE_LIMIT_SECONDS) when it failed.
C10_RateLimitBySuccessOrBackoff ==
    [][(TransportCalled /\ smtp # <<>>) =>
          elapsed >= (IF smtp[Len(smtp)].ok THEN rate
                      ELSE Min(BACKOFF_CAP_SECONDS, rate))]_vars

\* C10 witness: a second attempt was made after a failed one, with an
\* interval above the backoff cap configured.
C10_Witness ==
    /\ Len(smtp) >= 2
    /\ ~smtp[1].ok
    /\ rate > BACKOFF_CAP_SECONDS

(* -------------------------------- C11 ---------------------------------- *)

\* The worker printed a status line in this step.
LinePrinted == Len(stdout') = Len(stdout) + 1

NewLine == stdout'[Len(stdout')]

\* C11 (as claimed): every step of the worker that moves a draft into SENT or
\* FAILED (delivery, delivery exception, no-recipient fast-fail) appends a
\* send-attempt record and prints a line that starts with [SENT] or [FAILED]
\* according to the new status.
C11_NoSilentOutcome ==
    [][\A d \in DOMAIN draft :
          (WorkerStep /\ draft'[d].status \in {SENT, FAILED}
                      /\ draft'[d].status # draft[d].status)
              => /\ AttemptAdded
                 /\ LinePrinted
                 /\ NewLine.tag = (IF draft'[d].status = SENT THEN "[SENT]" ELSE "[FAILED]")]_vars

(* -------------------------------- C12 ---------------------------------- *)

\* The worker leaves a claimed draft that has a recipient without having
\* delivered it: message construction or the transport failed.
HandlingFailed ==
    /\ wpc[W] = "claimed"
    /\ wdraft[W].to_email # NO_EMAIL
    /\ WorkerStep
    /\ ~(TransportCalled /\ smtp'[Len(smtp')].ok)

\* C12 (as claimed): when handling a claimed draft that has a recipient
\* fails, the draft is FAILED afterwards, never APPROVED, exactly one
\* 'failed' record is appended for it, and the worker is not stopped: in loop
\* mode it sleeps and goes on to the next iteration.
C12_FailureIsolation ==
    [][HandlingFailed =>
          /\ draft'[wdraft[W].id].status = FAILED
          /\ AttemptAdded
          /\ NewAttempt.draft_id = wdraft[W].id
          /\ NewAttempt.status = "failed"
          /\ wpc'[W] # "crashed"
          /\ ~once => wpc'[W] = "sleeping"]_vars

(* ---------------------- vocabulary of C13 to C18 ----------------------- *)

\* The call `fn` has returned or raised.
Called(fn) == call.fn = fn /\ call.returned

(* -------------------------------- C13 ---------------------------------- *)

\* C13 (as claimed): build_personalization_brief raises nothing, and returns
\* the fallback brief whenever the text-generation capability failed
\* (offline or not configured, unreachable, timed out, HTTP error, output
\* without JSON, JSON still malformed after the trailing-comma repair).
C13_BriefNeverFails ==
    Called("build_personalization_brief") =>
        /\ call.result.exc = NO_EXC
        /\ json_from_llm(call.settings, call.response).exc # NO_EXC =>
               call.result.value = FallbackBrief(ORG_PROFILE, call.company_profile)

(* -------------------------------- C14 ---------------------------------- *)

\* C14 (as claimed): write_email_with_llm raises nothing; when the
\* generation call failed, in whatever way, the result is the template
\* rendering; notes is the template note exactly when the template produced
\* the result and the LLM note exactly when the completion did.
C14_EmailAlwaysTriple ==
    Called("write_email_with_llm") =>
        LET failed == chat_completion(call.settings, call.response).exc # NO_EXC
        IN /\ call.result.exc = NO_EXC
           /\ failed => call.result = write_email_template(call.brief, call.language)
           /\ call.result.value.notes = TEMPLATE_NOTE <=> failed
           /\ call.result.value.notes = LLM_NOTE <=> ~failed

(* -------------------------------- C15 ---------------------------------- *)

\* C15 (as claimed): pick_top_contacts returns max_n candidates at most, for
\* every max_n from 0 on, and none whose mailbox name contains "." or "_"
\* while its confidence is below 0.8.
C15_AtMostNAndNoWeakPersonal ==
    Called("pick_top_contacts") =>
        /\ Len(call.result) <= call.max_n
        /\ \A i \in DOMAIN call.result :
              ~(LooksPersonal(call.result[i].email)
                  /\ call.result[i].confidence < PERSONAL_MIN_CONFIDENCE)

(* -------------------------------- C16 ---------------------------------- *)

\* The orderings of a list of pages.
Orderings(pages) ==
    {[i \in DOMAIN pages |-> pages[f[i]]] : f \in Permutations(DOMAIN pages)}

EmailsOf(found) == {found[i].email : i \in DOMAIN found}

\* The candidate of a list for an email.
ByEmail(found, email) == found[CHOOSE i \in DOMAIN found : found[i].email = email]

\* The pages on which the email reaches its best confidence.
BestPages(email, pages) ==
    LET on == {i \in DOMAIN pages :
                  \E k \in DOMAIN extract_emails(pages[i].text) :
                      extract_emails(pages[i].text)[k] = email}
        conf(i) == guess_role(email, pages[i].url, pages[i].text).confidence
    IN {i \in on : \A j \in on : conf(j) <= conf(i)}

\* C16 (as claimed): every ordering of the same pages yields the same emails,
\* each with the same role_guess and confidence; found_on differs only for an
\* email whose best confidence is reached on more than one page.
C16_SameCandidatesInAnyOrder ==
    Called("find_contacts_from_pages") =>
        \A q \in Orderings(call.pages) :
            LET other == find_contacts_from_pages(q)
            IN /\ EmailsOf(other) = EmailsOf(call.result)
               /\ \A e \in EmailsOf(call.result) :
                     LET a == ByEmail(call.result, e)
                         b == ByEmail(other, e)
                     IN /\ a.confidence = b.confidence
                        /\ a.role_guess = b.role_guess
                        /\ a.found_on # b.found_on =>
                               Cardinality(BestPages(e, call.pages)) > 1

\* C16 (amended): every ordering yields the same emails, each with the same
\* confidence; role_guess and found_on differ only for an email whose best
\* confidence is reached on more than one page.
C16_SameConfidenceInAnyOrder ==
    Called("find_contacts_from_pages") =>
        \A q \in Orderings(call.pages) :
            LET other == find_contacts_from_pages(q)
            IN /\ EmailsOf(other) = EmailsOf(call.result)
               /\ \A e \in EmailsOf(call.result) :
                     LET a == ByEmail(call.result, e)
                         b == ByEmail(other, e)
                     IN /\ a.confidence = b.confidence
                        /\ (a.found_on # b.found_on \/ a.role_guess # b.role_guess) =>
                               Cardinality(BestPages(e, call.pages)) > 1

\* C16 witness: the finder returned for a list of pages of which another
\* ordering gives some email another role.
C16_Witness ==
    /\ Called("find_contacts_from_pages")
    /\ \E q \in Orderings(call.pages) :
          \E e \in EmailsOf(call.result) :
              ByEmail(call.result, e).role_guess # ByEmail(find_contacts_from_pages(q), e).role_guess

(* -------------------------------- C17 ---------------------------------- *)

\* The URL contains a csr keyword and the page text none of the vocabulary.
CsrUrlAndPlainText ==
    /\ ContainsAny(lower(call.url), ROLE_KEYWORDS[1].kws)
    /\ ~ContainsAny(lower(call.text), TEXT_VOCABULARY)

\* C17 (as claimed): for a URL with a csr keyword and a page text without
\* sponsorship vocabulary, guess_role returns csr with confidence 0.6.
C17_CsrUrlGivesSixTenths ==
    (Called("guess_role") /\ CsrUrlAndPlainText) =>
        call.result = [role |-> "csr", confidence |-> 6]

\* C17 (amended): it returns csr, with confidence 0.6 when the email contains
\* no generic-inbox hint and 0.8 when it contains one.
C17_CsrUrlGivesSixOrEightTenths ==
    (Called("guess_role") /\ CsrUrlAndPlainText) =>
        call.result = [role |-> "csr",
                       confidence |-> IF ContainsAny(lower(call.email), GENERIC_INBOX_HINTS)
                                      THEN 8 ELSE 6]

\* C17 witness: info@acme.org on the csr page, whose text has none of the
\* vocabulary, was classified with confidence 0.8.
C17_Witness ==
    /\ Called("guess_role")
    /\ call.email = INFO_AT_ACME
    /\ call.url = URL_CSR
    /\ call.text = TEXT_REACH_US
    /\ CsrUrlAndPlainText
    /\ call.result.confidence = 8

(* -------------------------------- C18 ---------------------------------- *)

\* guess_role was called with the email, URL and text of the scenario.
ScenarioClassified ==
    /\ Called("guess_role")
    /\ call.email = INFO_AT_ACME
    /\ call.url = URL_PARTNERSHIP
    /\ call.text = TEXT_INQUIRIES

\* extract_emails was called with the text of the scenario.
ScenarioExtracted == Called("extract_emails") /\ call.text = TEXT_INQUIRIES

\* C18 (as claimed): for the scenario's text and URL, extract_emails yields
\* info@acme.org alone and guess_role yields partnership with confidence 0.6.
C18_ScenarioSixTenths ==
    /\ ScenarioExtracted => call.result = <<INFO_AT_ACME>>
    /\ ScenarioClassified => call.result = [role |-> "partnership", confidence |-> 6]

\* C18 (amended): extract_emails yields info@acme.org alone and guess_role
\* yields partnership with confidence 1.0: 0.6 for the URL keyword, 0.2 for
\* the info@ hint and 0.2 for "partnership" in the text.
C18_ScenarioFullConfidence ==
    /\ ScenarioExtracted => call.result = <<INFO_AT_ACME>>
    /\ ScenarioClassified => call.result = [role |-> "partnership", confidence |-> MAX_CONFIDENCE]

\* C18 witness: the scenario was classified, as partnership.
C18_Witness ==
    /\ ScenarioClassified
    /\ call.result.role = "partnership"
    /\ ContainsAny(lower(call.text), TEXT_VOCABULARY)
    /\ ContainsAny(lower(call.email), GENERIC_INBOX_HINTS)

(* -------------------------------- C19 ---------------------------------- *)

\* C19: an iteration of the --once worker that finds no APPROVED draft ends
\* run_worker in that step: no sleep is started, the transport is not
\* called, no draft row changes, no send-attempt record is added and nothing
\* is printed.
C19_OnceIdleReturns ==
    [][(once /\ wpc[W] = "poll" /\ ApprovedDrafts = {} /\ WorkerStep) =>
          /\ wpc'[W] = "done"
          /\ wsleep' = wsleep
          /\ smtp' = smtp
          /\ draft' = draft
          /\ sendattempt' = sendattempt
          /\ stdout' = stdout]_vars

\* C19 witness: the --once worker has returned without ever having committed
\* an outcome or called the transport, while drafts that are not approved
\* exist.
C19_Witness ==
    /\ once
    /\ wpc[W] = "done"
    /\ smtp = <<>>
    /\ sendattempt = <<>>
    /\ wsleep[W] = 0
    /\ DOMAIN draft # {}
    /\ ApprovedDrafts = {}

(* -------------------------------- C20 ---------------------------------- *)

\* C20: right after a research run processed a company, the contact rows of
\* that company are the candidates picked in that run, one row each and at
\* most MAX_N; no other row of the company is left.
C20_ContactsSuperseded ==
    [][~NoResearchStep =>
          LET c == research'.company_id
              top == research'.top
              rows == {k \in DOMAIN contact' : contact'[k].company_id = c}
          IN /\ c = draft'[SetMax(DOMAIN draft')].company_id
             /\ Cardinality(rows) = Len(top)
             /\ Len(top) <= MAX_N
             /\ {contact'[k].email : k \in rows} = {top[i] : i \in DOMAIN top}]_vars

\* C20 witness: a company was researched twice. Its first draft was
\* delivered, so the first run had stored a contact for it; the second run
\* picked no candidate, and the company has no contact row.
C20_Witness ==
    \E d, e \in DOMAIN draft :
        /\ d < e
        /\ draft[d].company_id = draft[e].company_id
        /\ draft[d].status = SENT
        /\ research.company_id = draft[e].company_id
        /\ research.top = <<>>
        /\ ContactsOf(draft[e].company_id) = {}

(* -------------------------------- C21 ---------------------------------- *)

\* The keywords of a role.
KeywordsOf(role) ==
    UNION {ROLE_KEYWORDS[i].kws : i \in {j \in DOMAIN ROLE_KEYWORDS : ROLE_KEYWORDS[j].role = role}}

\* A keyword of the role is in the lower-cased email or URL of the call.
RoleHit(role) ==
    \/ ContainsAny(lower(call.email), KeywordsOf(role))
    \/ ContainsAny(lower(call.url), KeywordsOf(role))

AnyRoleHit == RoleHit("csr") \/ RoleHit("partnership") \/ RoleHit("marketing")

\* A generic-inbox hint is in the lower-cased email of the call.
HintHit == ContainsAny(lower(call.email), GENERIC_INBOX_HINTS)

\* A word of the vocabulary is in the lower-cased page text of the call.
TextHit == ContainsAny(lower(call.text), TEXT_VOCABULARY)

\* The role of the reference classifier.
ReferenceRole ==
    IF RoleHit("csr") THEN "csr"
    ELSE IF RoleHit("partnership") THEN "partnership"
    ELSE IF RoleHit("marketing") THEN "marketing"
    ELSE IF HintHit THEN "generic"
    ELSE "unknown"

\* 1 for true, 0 for false.
Bit(b) == IF b THEN 1 ELSE 0

\* The confidence of the reference classifier, in tenths.
ReferenceConfidence ==
    Min(10, 6 * Bit(AnyRoleHit) + 2 * Bit(HintHit) + 2 * Bit(TextHit))

\* C21: guess_role returns the role and the confidence of the reference
\* classifier (first of csr, partnership, marketing with a keyword in the
\* lower-cased email or URL, else generic on a generic-inbox hint, else
\* unknown; min(1.0, 0.6 + 0.2 + 0.2 of the rules that fire)); the confidence
\* is between 0 and 1, at least 0.2 with a generic-inbox hint, and 0.0 with
\* role unknown when no rule fires.
C21_GuessRoleIsReference ==
    Called("guess_role") =>
        /\ call.result.role = ReferenceRole
        /\ call.result.confidence = ReferenceConfidence
        /\ call.result.confidence \in 0..10
        /\ HintHit => call.result.confidence >= 2
        /\ (~AnyRoleHit /\ ~HintHit /\ ~TextHit) =>
               call.result = [role |-> "unknown", confidence |-> 0]

\* C21 witness: csr@acme.org on the partnership page, which has keywords of
\* two roles and a text with vocabulary, was classified as csr with 0.8.
C21_Witness ==
    /\ Called("guess_role")
    /\ call.email = CSR_AT_ACME
    /\ call.url = URL_PARTNERSHIP
    /\ call.text = TEXT_INQUIRIES
    /\ RoleHit("csr") /\ RoleHit("partnership") /\ TextHit /\ ~HintHit
    /\ call.result = [role |-> "csr", confidence |-> 8]

(* -------------------------------- C22 ---------------------------------- *)

\* The emails extract_emails finds in a text, as a set.
ExtractedFrom(text) == {extract_emails(text)[k] : k \in DOMAIN extract_emails(text)}

\* The pages of the list on which the email occurs.
PagesWith(email, pages) == {i \in DOMAIN pages : email \in ExtractedFrom(pages[i].text)}

\* The candidate the occurrence of the email on page i makes.
Occurrence(email, pages, i) ==
    [email |-> email,
     found_on |-> pages[i].url,
     role_guess |-> guess_role(email, pages[i].url, pages[i].text).role,
     confidence |-> guess_role(email, pages[i].url, pages[i].text).confidence]

\* The first page on which the email reaches its best confidence.
FirstBestPage(email, pages) ==
    CHOOSE i \in BestPages(email, pages) : \A j \in BestPages(email, pages) : i <= j

\* The role weights of the claim.
ClaimedWeight(role) ==
    IF role \in {"csr", "partnership"} THEN 3
    ELSE IF role = "marketing" THEN 2
    ELSE IF role = "generic" THEN 1
    ELSE 0

\* (confidence, role weight) of x is not smaller than that of y.
NotBelow(x, y) ==
    \/ x.confidence > y.confidence
    \/ /\ x.confidence = y.confidence
       /\ ClaimedWeight(x.role_guess) >= ClaimedWeight(y.role_guess)

\* C22: find_contacts_from_pages returns exactly one candidate per distinct
\* extracted email, the first-seen occurrence among those with the maximal
\* confidence for the email, and the list is ordered non-increasingly by
\* (confidence, role weight).
C22_OnePerEmailFirstBestSorted ==
    Called("find_contacts_from_pages") =>
        LET pages == call.pages
            found == call.result
            all == UNION {ExtractedFrom(pages[i].text) : i \in DOMAIN pages}
        IN /\ EmailsOf(found) = all
           /\ Len(found) = Cardinality(all)
           /\ \A e \in all :
                 ByEmail(found, e) = Occurrence(e, pages, FirstBestPage(e, pages))
           /\ \A i, j \in DOMAIN found : i < j => NotBelow(found[i], found[j])

\* C22 witness: the finder returned a list in which the candidate of an
\* email comes from a later page than the first it was seen on, and in which
\* two candidates of equal confidence have different role weights.
C22_Witness ==
    /\ Called("find_contacts_from_pages")
    /\ \E e \in EmailsOf(call.result) :
          \E i \in PagesWith(e, call.pages) :
              /\ i < FirstBestPage(e, call.pages)
              /\ ByEmail(call.result, e).found_on = call.pages[FirstBestPage(e, call.pages)].url
    /\ \E i, j \in DOMAIN call.result :
          /\ i < j
          /\ call.result[i].confidence = call.result[j].confidence
          /\ ClaimedWeight(call.result[i].role_guess) > ClaimedWeight(call.result[j].role_guess)

(* -------------------------------- C23 ---------------------------------- *)

\* The interval the worker has to let pass after its last transport call.
RequiredPause ==
    IF smtp[Len(smtp)].ok THEN rate ELSE Min(30, rate)

\* C23: a step that calls the transport puts the worker to sleep, for the
\* rate-limit interval after a delivery and for min(30, rate-limit interval)
\* after a delivery exception; while the worker is anywhere else than in that
\* sleep (at the top of an iteration, holding a draft, or returned), that
\* interval has elapsed since its last transport call; and the backoff is
\* not longer than the throttle.
C23_ThrottleAfterDelivery ==
    /\ [](/\ (smtp # <<>> /\ wpc[W] # "sleeping") => elapsed >= RequiredPause
          /\ Min(30, rate) <= rate)
    /\ [][TransportCalled =>
             /\ wpc'[W] = "sleeping"
             /\ wsleep'[W] = (IF smtp'[Len(smtp')].ok THEN rate ELSE Min(30, rate))
             /\ elapsed' = 0]_vars

\* C23 witness: with a rate limit of 60 seconds the worker is at the top of
\* an iteration 30 seconds after a delivery exception, and an earlier
\* delivery had succeeded.
C23_Witness ==
    /\ Len(smtp) = 2
    /\ smtp[1].ok /\ ~smtp[2].ok
    /\ rate = 60
    /\ wpc[W] = "poll"
    /\ elapsed = 30

(* -------------------------------- C24 ---------------------------------- *)

\* C24 (as claimed): a step that changes a draft's status writes its
\* updated_at in the same commit, with a time the clock has handed out; no
\* step lowers a draft's updated_at; and a step that takes a draft from
\* APPROVED to SENT raises it.
C24_StatusChangeRaisesTimestamp ==
    [][\A d \in DOMAIN draft :
          /\ draft'[d].status # draft[d].status =>
                 /\ draft'[d].updated_at # draft[d].updated_at
                 /\ draft'[d].updated_at < now'
          /\ draft'[d].updated_at >= draft[d].updated_at
          /\ (draft[d].status = APPROVED /\ draft'[d].status = SENT) =>
                 draft'[d].updated_at > draft[d].updated_at]_vars

(* -------------------------------- C25 ---------------------------------- *)

\* The workers that hold a draft they selected and have not committed yet.
Delivering == {w \in WorkerIds : wpc[w] = "claimed"}

\* C25: the select of an iteration writes nothing, so it leaves the draft
\* APPROVED for the select of another worker; and with exactly one worker
\* started, at most one delivery is under way at any time.
C25_ClaimWritesNothing ==
    /\ [][\A w \in WorkerIds :
             (wpc[w] = "poll" /\ wpc'[w] = "claimed") =>
                 /\ draft' = draft
                 /\ sendattempt' = sendattempt
                 /\ draft[wdraft'[w].id].status = APPROVED]_vars
    /\ [](Cardinality(running) = 1 => Cardinality(Delivering) <= 1)

\* C25 witness: two workers were started, both selected the same draft and
\* both delivered it: the transport was called twice with it and the draft
\* has two 'sent' records. No reviewer touched the draft in between.
C25_Witness ==
    /\ running = {"w1", "w2"}
    /\ Len(smtp) = 2
    /\ smtp[1].draft_id = smtp[2].draft_id
    /\ smtp[1].ok /\ smtp[2].ok
    /\ Cardinality(AttemptsOf(smtp[1].draft_id, "sent")) = 2
    /\ sinceApprove[smtp[1].draft_id] = 2

(* -------------------------------- C26 ---------------------------------- *)

\* C26 (as claimed): in loop mode, with one worker that is scheduled fairly
\* and reviewers who act finitely often, every draft that is APPROVED becomes
\* SENT or FAILED later, unless a reviewer takes it back to DRAFT.
C26_ApprovedEventuallyProcessed ==
    \A d \in 1..MaxDrafts :
        (d \in DOMAIN draft /\ draft[d].status = APPROVED)
            ~> (d \in DOMAIN draft /\ draft[d].status \in {SENT, FAILED, DRAFT})

(* -------------------------------- C27 ---------------------------------- *)

\* The message handed to the transport in this step.
NewMessage == smtp'[Len(smtp')]

\* C27 (as claimed): when a message is handed to the transport, the stored
\* draft is APPROVED and the message has the stored subject, body and
\* recipient of that moment; and a step of the worker that writes the status
\* of a draft finds it APPROVED in the store, so that it overwrites no
\* Unapprove committed since the worker read the draft.
C27_DeliversStoredDraft ==
    [][/\ TransportCalled =>
              /\ draft[NewMessage.draft_id].status = APPROVED
              /\ NewMessage.subject = draft[NewMessage.draft_id].subject
              /\ NewMessage.body_text = draft[NewMessage.draft_id].body_text
              /\ NewMessage.to_email = GetContactEmail(draft[NewMessage.draft_id].contact_id)
       /\ \A d \in DOMAIN draft :
              (WorkerStep /\ draft'[d].status # draft[d].status) =>
                  draft[d].status = APPROVED]_vars

(* -------------------------------- C28 ---------------------------------- *)

\* The positions of sendattempt that belong to draft d.
AllAttemptsOf(d) == {i \in DOMAIN sendattempt : sendattempt[i].draft_id = d}

\* The most recent attempt of draft d.
LastAttemptOf(d) == sendattempt[SetMax(AllAttemptsOf(d))]

\* C28: a SENT draft has an attempt record and its most recent one has
\* outcome 'sent'; a FAILED draft has one and its most recent one has outcome
\* 'failed'.
C28_StatusMatchesLastAttempt ==
    \A d \in DOMAIN draft :
        /\ draft[d].status = SENT =>
               (AllAttemptsOf(d) # {} /\ LastAttemptOf(d).status = "sent")
        /\ draft[d].status = FAILED =>
               (AllAttemptsOf(d) # {} /\ LastAttemptOf(d).status = "failed")

\* C28 witness: a draft failed, was approved again and was delivered: it is
\* SENT and has a 'failed' record followed by a 'sent' record.
C28_Witness ==
    \E d \in DOMAIN draft :
        /\ draft[d].status = SENT
        /\ Cardinality(AllAttemptsOf(d)) = 2
        /\ Cardinality(AttemptsOf(d, "failed")) = 1
        /\ LastAttemptOf(d).status = "sent"

(* -------------------------------- C29 ---------------------------------- *)

\* C29: a step of a worker iteration leaves the contact rows, the set of
\* drafts, every draft other than the one the iteration claimed, and the
\* subject, body, contact and company of the claimed one unchanged; it
\* appends attempt records for the claimed draft only and changes none; the
\* select itself writes nothing and claims a draft that is APPROVED, so a
\* draft that is not APPROVED at the select is not touched by the iteration.
C29_WorkerFrame ==
    [][WorkerStep =>
          /\ contact' = contact
          /\ DOMAIN draft' = DOMAIN draft
          /\ \A d \in DOMAIN draft :
                /\ d # wdraft[W].id => draft'[d] = draft[d]
                /\ draft'[d].subject = draft[d].subject
                /\ draft'[d].body_text = draft[d].body_text
                /\ draft'[d].contact_id = draft[d].contact_id
                /\ draft'[d].company_id = draft[d].company_id
          /\ SubSeq(sendattempt', 1, Len(sendattempt)) = sendattempt
          /\ \A i \in DOMAIN sendattempt' \ DOMAIN sendattempt :
                sendattempt'[i].draft_id = wdraft[W].id
          /\ (wpc[W] = "poll" /\ wpc'[W] = "claimed") =>
                (draft' = draft /\ draft[wdraft'[W].id].status = APPROVED)]_vars

\* C29 witness: the worker delivered one of two APPROVED drafts and sleeps;
\* the other is APPROVED as the reviewer left it, and a contact row exists.
C29_Witness ==
    /\ wpc[W] = "sleeping"
    /\ contact # <<>>
    /\ \E d, e \in DOMAIN draft :
          /\ d # e
          /\ draft[d].status = SENT
          /\ draft[e].status = APPROVED
          /\ draft[e].updated_at < draft[d].updated_at
          /\ AllAttemptsOf(e) = {}
          /\ Cardinality(AllAttemptsOf(d)) = 1

(* -------------------------------- C30 ---------------------------------- *)

\* C30: a research run creates its draft in status DRAFT and changes the
\* status of no existing draft; a draft becomes APPROVED only in a step of
\* the Approve handler on it; and every draft handed to the transport or
\* given an attempt record was approved by the reviewer before.
C30_NothingSentUnapproved ==
    /\ [][/\ \A d \in DOMAIN draft' \ DOMAIN draft : draft'[d].status = DRAFT
          /\ ~NoResearchStep =>
                 \A d \in DOMAIN draft : draft'[d].status = draft[d].status
          /\ \A d \in DOMAIN draft :
                 (draft'[d].status = APPROVED /\ draft[d].status # APPROVED) =>
                     /\ approvals' = approvals \cup {d}
                     /\ ~WorkerStep
                     /\ NoResearchStep]_vars
    /\ [](/\ \A i \in DOMAIN smtp : smtp[i].draft_id \in approvals
          /\ \A i \in DOMAIN sendattempt : sendattempt[i].draft_id \in approvals
          /\ \A w \in WorkerIds : wpc[w] = "claimed" => wdraft[w].id \in approvals)

\* C30 witness: of two drafts the research runs created, the one the
\* reviewer approved was delivered and the other, never approved, is a DRAFT
\* without attempt.
C30_Witness ==
    \E d, e \in DOMAIN draft :
        /\ approvals = {d}
        /\ e # d
        /\ draft[d].status = SENT
        /\ \E i \in DOMAIN smtp : smtp[i].draft_id = d /\ smtp[i].ok
        /\ draft[e].status = DRAFT
        /\ AllAttemptsOf(e) = {}

====
